---- MODULE Spec2Model ----
(***************************************************************************)
(* Segmented blueprint generation and chapter moves of arboris-novel.      *)
(*                                                                         *)
(* LLMService.generate_blueprint_in_segments (services/llm_service.py)     *)
(* walks the five blueprint segments, merging each segment's mapping into  *)
(* the blueprint dict; the chapter outline (segment 5) is generated in     *)
(* batches.  fix_and_continue_blueprint (api/routers/novels.py) is the     *)
(* resume entry point: it merges the caller's fixed_data into the partial  *)
(* blueprint of a failure payload and calls the orchestrator again.        *)
(*                                                                         *)
(* A Python dict is a function whose DOMAIN is its key set.  Prompt and    *)
(* context texts are opaque.  What _generate_segment_with_retry returns    *)
(* (a non-empty mapping, a SegmentParseError, or a raised HTTPException)   *)
(* is an input of the orchestrator (specification Spec).                   *)
(*                                                                         *)
(* LLMService._generate_segment_with_retry with the continuation loop of   *)
(* LLMService._stream_and_collect below it is specification SegmentSpec:   *)
(* the backend's answer to each streaming exchange and the parser's        *)
(* verdict on each collected response are its inputs.                      *)
(*                                                                         *)
(* NovelService.move_chapter_to_volume (services/novel_service.py) is      *)
(* specification MoveSpec, from every store with unique chapter numbers;   *)
(* OutlineSpec runs it with create_chapter_outline and                     *)
(* delete_chapter_outline from the empty store.                            *)
(*                                                                         *)
(* LLMService._parse_segment_response_with_error is specification          *)
(* ParserSpec: what each of its three parses gives is its input.           *)
(*                                                                         *)
(* _extract_balanced_json, sanitize_json_like_text and safe_parse_json     *)
(* (utils/json_utils.py) are specification TextSpec: they are applied to   *)
(* texts that hold a JSON document, character by character, and json.loads *)
(* is the scanner and the grammar of the JSON they can hold.               *)
(*                                                                         *)
(* LLMService._resolve_llm_config with _enforce_daily_limit is             *)
(* specification LimitSpec: concurrent calls of one user.                  *)
(***************************************************************************)
EXTENDS Integers, Sequences, FiniteSets, TLC

VARIABLES
    pc,                  \* "running" | "outline" | "returned" | "raised"
    seg,                 \* the segment block the run is at (1..5)
    system_prompt,       \* arguments of generate_blueprint_in_segments
    total_chapters,
    chapters_per_batch,
    start_from_segment,
    partial_blueprint,   \* the caller's dict object (its lists are shared)
    given,               \* contents of partial_blueprint when the call began
    blueprint,           \* local dict: partial_blueprint.copy() or {}
    shared,              \* blueprint["chapter_outline"] is still the caller's list object
    all_chapters,        \* locals of the outline block
    batch_num,
    start_chapter,
    result,              \* the BlueprintGenerationResult returned
    requests,            \* calls of _generate_segment_with_retry made by this run
    written,             \* keys merged into blueprint by blueprint.update in this run
    request,             \* the BlueprintFixAndContinueRequest that started this run
    resumes              \* number of fix-and-continue calls so far

\* _generate_segment_with_retry and _stream_and_collect
VARIABLES
    at,                  \* "attempt" | "exchange" | "parse" | "returned" | "raised"
    max_retries,         \* argument of _generate_segment_with_retry
    max_continuations,   \* argument of _stream_and_collect
    attempt,             \* loop variable of the retry loop
    last_error_msg,      \* locals of _generate_segment_with_retry
    last_error_pos,
    last_response,
    messages,            \* argument of _stream_and_collect in this attempt
    current_messages,    \* locals of _stream_and_collect
    full_response,
    continuation_count,
    api_request_count,   \* the usage counter
    exchanges,           \* streaming exchanges of this attempt, as sent and answered
    exchange_count,      \* streaming exchanges of all attempts
    attempts,            \* how each finished attempt ended, and its parse error
    outcome              \* what _generate_segment_with_retry returned or raised

\* move_chapter_to_volume
VARIABLES
    outlines,            \* ChapterOutline rows: id -> [volume_id, chapter_number]
    details,             \* Chapter rows: id -> [volume_id, chapter_number]
    committed,           \* the rows as last committed
    move,                \* the call in progress: its arguments and locals
    mpc,                 \* "ready" | "offset" | "flushing" | "renumbered" | "done" |
                         \* "unchanged" | "rejected" | "failed"
    moves                \* number of calls so far

\* _parse_segment_response_with_error
VARIABLES
    ppc,                 \* "ready" | "safe" | "fix" | "returned"
    parse_segment,       \* segment_name of _parse_segment_response_with_error
    tiers,               \* what the three parses of the response give
    first_error_msg,     \* locals of _parse_segment_response_with_error
    first_error_pos,
    parse_result         \* the tuple returned

\* _extract_balanced_json, sanitize_json_like_text and safe_parse_json
VARIABLES
    json_lead,           \* the text handed in: what precedes the document,
    json_doc,            \* the document,
    json_trail,          \* and what follows it
    tpc,                 \* "ready" | "extracted" | "sanitized" | "parsed"
    balanced,            \* what _extract_balanced_json returned
    sanitized,           \* what sanitize_json_like_text returned
    loaded               \* what safe_parse_json returned

\* _resolve_llm_config and _enforce_daily_limit
VARIABLES
    lpc,                 \* caller -> "start" | "check" | "increment" | "commit" |
                         \* "resolved" | "rejected"
    used,                \* caller -> local `used`
    daily_request,       \* the stored daily request count of the user
    daily_limit,         \* admin setting daily_request_limit
    custom_key,          \* the user has an API key of their own
    counter,             \* how increment_daily_request writes the count
    at_start             \* the stored count when the calls began

orchestratorVars ==
    <<pc, seg, system_prompt, total_chapters, chapters_per_batch,
      start_from_segment, partial_blueprint, given, blueprint, shared,
      all_chapters, batch_num, start_chapter, result, requests, written,
      request, resumes>>

segmentVars ==
    <<at, max_retries, max_continuations, attempt, last_error_msg, last_error_pos,
      last_response, messages, current_messages, full_response, continuation_count,
      api_request_count, exchanges, exchange_count, attempts, outcome>>

moveVars == <<outlines, details, committed, move, mpc, moves>>

parserVars == <<ppc, parse_segment, tiers, first_error_msg, first_error_pos, parse_result>>

textVars == <<json_lead, json_doc, json_trail, tpc, balanced, sanitized, loaded>>

limitVars == <<lpc, used, daily_request, daily_limit, custom_key, counter, at_start>>

vars == <<orchestratorVars, segmentVars, moveVars, parserVars, textVars, limitVars>>

----------------------------------------------------------------------------
(* Bounds of the model *)

MaxTotal == 4        \* total_chapters ranges over 1..MaxTotal
MaxBatch == 2        \* chapters_per_batch ranges over 0..MaxBatch
MaxGiven == 2        \* outline items in a caller-supplied partial blueprint
MaxResumes == 1      \* fix-and-continue calls in one session
MaxBatchNum == 6     \* cap of batch_num (the loop does not end when chapters_per_batch = 0)
MaxRetries == 1      \* max_retries ranges over 0..MaxRetries
MaxContinuations == 2    \* max_continuations ranges over 0..MaxContinuations
MaxChapters == 3     \* ChapterOutline rows in the store
MaxNumber == 3       \* stored chapter numbers range over 1..MaxNumber at the start
MaxMoves == 2        \* calls of move_chapter_to_volume in one behaviour: a call and its repetitions
MaxListed == 2       \* items of a response that is a bare JSON list
MaxCallers == 2      \* concurrent calls of _resolve_llm_config for one user
MaxLimit == 2        \* daily_request_limit
MaxAtoms == 2        \* characters and escapes in a string of a document

NumSegments == 5

----------------------------------------------------------------------------
(* Dicts *)

EmptyDict == << >>

\* dict.update(b) / {**a, **b}
Update(a, b) ==
    [f \in (DOMAIN a) \cup (DOMAIN b) |-> IF f \in DOMAIN b THEN b[f] ELSE a[f]]

\* dict.get(key, default)
Get(d, key, default) == IF key \in DOMAIN d THEN d[key] ELSE default

\* d[key] = value
SetItem(d, key, value) == Update(d, [f \in {key} |-> value])

Min(a, b) == IF a <= b THEN a ELSE b

----------------------------------------------------------------------------
(* Segments, names and documents *)

\* segment_names (line 794) by index; the name of an outline batch is the
\* f-string chapter_outline_batch_{batch_num}, kept here as prefix and number.
SegmentNames ==
    <<"basic", "world_setting", "characters", "relationships", "chapter_outline">>

Name(base) == [base |-> base, batch |-> 0]
BatchName(n) == [base |-> "chapter_outline_batch_", batch |-> n]

\* The field each segment instruction asks for (BLUEPRINT_SEGMENT_INSTRUCTIONS);
\* "title" stands for the fields of the basic segment, "chapters" is the key
\* the outline instruction asks for.
OwnField ==
    <<"title", "world_setting", "characters", "relationships", "chapter_outline">>

SegmentFields == {OwnField[i] : i \in 1..5}

Fields == SegmentFields \cup {"chapters"}

ListFields == {"chapter_outline", "chapters"}

\* Outline items: n is the chapter_number the item carries, src says who
\* produced it, batch the batch_num of the request that produced it.
Item(n, src, b) == [n |-> n, src |-> src, batch |-> b]

\* The items an outline response holds: c chapters numbered from `start`.
BatchItems(start, c, b) == [i \in 1..c |-> Item(start + i - 1, "gen", b)]

GivenItems(len) == [i \in 1..len |-> Item(i, "given", 0)]

\* The value a segment's response holds under key f: field values are
\* opaque, only their origin is kept ("given" by the caller, "generated" by a
\* segment, "fixed" by the user).
ValueOf(f) == IF f \in ListFields THEN <<Item(1, "stray", 0)>> ELSE "generated"

\* The mappings _generate_segment_with_retry can return for segment i: it
\* returns only a truthy (non-empty) dict (line 586).  The response holds
\* the field asked for, and may hold the field of one other segment too.
SegmentResponses(i) ==
    { [f \in {OwnField[i], other} |-> ValueOf(f)] : other \in SegmentFields }

\* Partial documents a caller passes: the fields of segments 1..m, the
\* outline (m = 5) with len items.  A call that starts at segment k comes
\* with no document, with the fields of the segments before k, or with all
\* fields.
GivenDoc(m, len) ==
    [f \in {OwnField[i] : i \in 1..m} |->
        IF f = "chapter_outline" THEN GivenItems(len) ELSE "given"]

PartialDocs(k) ==
    {GivenDoc(0, 0), GivenDoc(Min(k - 1, 4), 0)}
        \cup {GivenDoc(5, len) : len \in (IF k < 5 THEN {MaxGiven} ELSE 0..MaxGiven)}

\* The router passes the configured "screenwriting" prompt (novels.py line 294).
SystemPrompts == {"screenwriting"}

----------------------------------------------------------------------------
(* Parts at rest: a specification of one part holds the other parts still *)

\* None as an error_position (line 546); offsets are 0 or more.
NoPosition == -1

SegmentIdle ==
    /\ at = "idle"
    /\ max_retries = 0
    /\ max_continuations = 0
    /\ attempt = 0
    /\ last_error_msg = ""
    /\ last_error_pos = NoPosition
    /\ last_response = << >>
    /\ messages = << >>
    /\ current_messages = << >>
    /\ full_response = << >>
    /\ continuation_count = 0
    /\ api_request_count = 0
    /\ exchanges = << >>
    /\ exchange_count = 0
    /\ attempts = << >>
    /\ outcome = [kind |-> "none"]

\* The arguments and locals of a call of move_chapter_to_volume.
NoMove ==
    [chapter_outline_id |-> 0, target_volume_id |-> 0, new_chapter_number |-> 0,
     old_volume_id |-> 0, old_chapter_number |-> 0, pending |-> << >>]

NoTuple == [ok |-> FALSE, data |-> << >>, msg |-> "", pos |-> NoPosition]

ParserIdle ==
    /\ ppc = "idle"
    /\ parse_segment = [base |-> "none", batch |-> 0]
    /\ tiers = << >>
    /\ first_error_msg = ""
    /\ first_error_pos = NoPosition
    /\ parse_result = NoTuple

\* None as the return value of a function that returns text or a value.
NoText == [ok |-> FALSE, chars |-> << >>]

\* None as the return value of safe_parse_json, and json.loads raising.
NoValue == [ok |-> FALSE, tokens |-> << >>]

TextIdle ==
    /\ json_lead = << >>
    /\ json_doc = << >>
    /\ json_trail = << >>
    /\ tpc = "idle"
    /\ balanced = NoText
    /\ sanitized = << >>
    /\ loaded = NoValue

LimitIdle ==
    /\ lpc = << >>
    /\ used = << >>
    /\ daily_request = 0
    /\ daily_limit = 0
    /\ custom_key = FALSE
    /\ counter = "none"
    /\ at_start = 0

MoveIdle ==
    /\ outlines = << >>
    /\ details = << >>
    /\ committed = [outlines |-> << >>, details |-> << >>]
    /\ move = NoMove
    /\ mpc = "idle"
    /\ moves = 0

----------------------------------------------------------------------------
(* generate_blueprint_in_segments *)

\* The generation_context of a failure result (lines 814-818, 989-994).
GenerationContext ==
    [system_prompt |-> system_prompt,
     total_chapters |-> total_chapters,
     chapters_per_batch |-> chapters_per_batch]

\* Mutant: the context of a batch failure does not say which batch failed.
BatchContext_NoBatch(n) == GenerationContext

BatchContext(n) ==
    Update(GenerationContext, [f \in {"current_batch"} |-> n])

\* SegmentParseError as far as the orchestrator fills it in.
ParseError(name, index) == [segment_name |-> name, segment_index |-> index]

NoError == [segment_name |-> Name("none"), segment_index |-> 0]

\* Mutant: the failure result carries no partial blueprint.
Failure_NoPartial(error, doc, context) ==
    [success |-> FALSE, error |-> error, blueprint |-> EmptyDict,
     partial_blueprint |-> EmptyDict, generation_context |-> context]

Failure(error, doc, context) ==
    [success |-> FALSE, error |-> error, blueprint |-> EmptyDict,
     partial_blueprint |-> doc, generation_context |-> context]

Success(doc) ==
    [success |-> TRUE, error |-> NoError, blueprint |-> doc,
     partial_blueprint |-> EmptyDict, generation_context |-> EmptyDict]

NoResult ==
    [success |-> FALSE, error |-> NoError, blueprint |-> EmptyDict,
     partial_blueprint |-> EmptyDict, generation_context |-> EmptyDict]

NoRequest ==
    [fixed_data |-> EmptyDict, segment_name |-> Name("none"),
     partial_blueprint |-> EmptyDict, generation_context |-> EmptyDict]

\* One entry of the request log: got = -1 when the segment failed, otherwise
\* the number of items merged (0 for segments 1..4).
Req(i, name, first, last, got) ==
    [seg |-> i, name |-> name, start |-> first, end |-> last, got |-> got]

\* Mutant: every segment block runs, whatever start_from_segment is.
RunsSegment_Always(i) == i \in 1..NumSegments

\* if start_from_segment <= i (lines 797, 828, 860, 896, 925)
RunsSegment(i) == start_from_segment <= i

\* Mutant: the run starts from an empty blueprint.
CopyOrEmpty_Drops(partial) == EmptyDict

\* partial_blueprint.copy() if partial_blueprint else {} (line 790)
CopyOrEmpty(partial) == IF DOMAIN partial # {} THEN partial ELSE EmptyDict

\* Line 790 and the state at the top of the function body.
Call(prompt, total, per_batch, k, partial) ==
    /\ pc' = "running"
    /\ seg' = 1
    /\ system_prompt' = prompt
    /\ total_chapters' = total
    /\ chapters_per_batch' = per_batch
    /\ start_from_segment' = k
    /\ partial_blueprint' = partial
    /\ given' = partial
    /\ blueprint' = CopyOrEmpty(partial)
    /\ shared' = ("chapter_outline" \in DOMAIN partial)
    /\ all_chapters' = << >>
    /\ batch_num' = 0
    /\ start_chapter' = 0
    /\ result' = NoResult
    /\ requests' = << >>
    /\ written' = {}

Init ==
    \E prompt \in SystemPrompts, total \in 1..MaxTotal, per_batch \in 0..MaxBatch,
       k \in 1..(NumSegments + 1) :
      \E partial \in PartialDocs(k) :
        /\ pc = "running"
        /\ seg = 1
        /\ system_prompt = prompt
        /\ total_chapters = total
        /\ chapters_per_batch = per_batch
        /\ start_from_segment = k
        /\ partial_blueprint = partial
        /\ given = partial
        /\ blueprint = CopyOrEmpty(partial)
        /\ shared = ("chapter_outline" \in DOMAIN partial)
        /\ all_chapters = << >>
        /\ batch_num = 0
        /\ start_chapter = 0
        /\ result = NoResult
        /\ requests = << >>
        /\ written = {}
        /\ request = NoRequest
        /\ resumes = 0
        /\ SegmentIdle
        /\ MoveIdle
        /\ ParserIdle
        /\ TextIdle
        /\ LimitIdle

\* A segment block whose `if start_from_segment <= i` is false: only the
\* context text is rebuilt.
SkipSegment ==
    /\ pc = "running"
    /\ seg \in 1..4
    /\ ~RunsSegment(seg)
    /\ seg' = seg + 1
    /\ UNCHANGED <<pc, system_prompt, total_chapters, chapters_per_batch,
                   start_from_segment, partial_blueprint, given, blueprint, shared,
                   all_chapters, batch_num, start_chapter, result, requests,
                   written, request, resumes,
                   segmentVars, moveVars, parserVars, textVars, limitVars>>

\* Mutant: the error of a segment is ignored and the run goes on.
SegmentFails_GoesOn ==
    /\ pc = "running"
    /\ seg \in 1..4
    /\ start_from_segment <= seg
    /\ requests' = Append(requests, [seg |-> seg, name |-> Name(SegmentNames[seg]),
                                     start |-> 0, end |-> 0, got |-> -1])
    /\ seg' = seg + 1
    /\ UNCHANGED <<pc, system_prompt, total_chapters, chapters_per_batch,
                   start_from_segment, partial_blueprint, given, blueprint, shared,
                   all_chapters, batch_num, start_chapter, result, written,
                   request, resumes,
                   segmentVars, moveVars, parserVars, textVars, limitVars>>

\* Segments 1..4, error branch (lines 809-819, 841-851, 873-883, 909-919).
SegmentFails ==
    /\ pc = "running"
    /\ seg \in 1..4
    /\ RunsSegment(seg)
    /\ requests' = Append(requests, Req(seg, Name(SegmentNames[seg]), 0, 0, -1))
    /\ result' = Failure(ParseError(Name(SegmentNames[seg]), seg), blueprint,
                         GenerationContext)
    /\ pc' = "returned"
    /\ UNCHANGED <<seg, system_prompt, total_chapters, chapters_per_batch,
                   start_from_segment, partial_blueprint, given, blueprint, shared,
                   all_chapters, batch_num, start_chapter, written, request, resumes,
                   segmentVars, moveVars, parserVars, textVars, limitVars>>

\* Segments 1..4, blueprint.update(data) (lines 820, 852, 884, 920).
SegmentSucceeds ==
    /\ pc = "running"
    /\ seg \in 1..4
    /\ RunsSegment(seg)
    /\ \E data \in SegmentResponses(seg) :
        /\ blueprint' = Update(blueprint, data)
        /\ written' = written \cup DOMAIN data
        /\ shared' = (shared /\ "chapter_outline" \notin DOMAIN data)
    /\ requests' = Append(requests, Req(seg, Name(SegmentNames[seg]), 0, 0, 0))
    /\ seg' = seg + 1
    /\ UNCHANGED <<pc, system_prompt, total_chapters, chapters_per_batch,
                   start_from_segment, partial_blueprint, given,
                   all_chapters, batch_num, start_chapter, result, request, resumes,
                   segmentVars, moveVars, parserVars, textVars, limitVars>>

\* An HTTPException raised below _generate_segment_with_retry (line 593)
\* leaves the whole call; no result is returned.
SegmentRaises ==
    /\ pc \in {"running", "outline"}
    /\ IF pc = "running"
         THEN seg \in 1..4 /\ RunsSegment(seg)
         ELSE start_chapter <= total_chapters /\ batch_num < MaxBatchNum
    /\ requests' = Append(requests,
                          IF pc = "running"
                            THEN Req(seg, Name(SegmentNames[seg]), 0, 0, -1)
                            ELSE Req(5, BatchName(batch_num + 1), start_chapter,
                                     Min(start_chapter + chapters_per_batch - 1,
                                         total_chapters), -1))
    /\ pc' = "raised"
    /\ UNCHANGED <<seg, system_prompt, total_chapters, chapters_per_batch,
                   start_from_segment, partial_blueprint, given, blueprint, shared,
                   all_chapters, batch_num, start_chapter, result, written,
                   request, resumes,
                   segmentVars, moveVars, parserVars, textVars, limitVars>>

\* batch_num before the first batch (line 932)
FirstBatchNum(chapters) ==
    IF chapters # << >> THEN Len(chapters) \div chapters_per_batch ELSE 0

\* Mutant: batching starts again from chapter 1.
StartChapter_FromOne(chapters) == 1

\* start_chapter before the first batch (line 942)
StartChapter(chapters) == Len(chapters) + 1

\* Lines 925-942: entering the outline block.  all_chapters is the list
\* object stored in blueprint when the key is there.  len(...) // 0 raises
\* ZeroDivisionError; the conditional expression skips it for an empty list.
EnterOutline ==
    /\ pc = "running"
    /\ seg = 5
    /\ RunsSegment(5)
    /\ LET chapters == Get(blueprint, "chapter_outline", << >>) IN
        IF chapters # << >> /\ chapters_per_batch = 0
          THEN /\ pc' = "raised"
               /\ UNCHANGED <<all_chapters, batch_num, start_chapter>>
          ELSE /\ pc' = "outline"
               /\ all_chapters' = chapters
               /\ batch_num' = FirstBatchNum(chapters)
               /\ start_chapter' = StartChapter(chapters)
    /\ UNCHANGED <<seg, system_prompt, total_chapters, chapters_per_batch,
                   start_from_segment, partial_blueprint, given, blueprint, shared,
                   result, requests, written, request, resumes,
                   segmentVars, moveVars, parserVars, textVars, limitVars>>

\* end_chapter of the batch the loop is about to request (line 945).
EndChapter == Min(start_chapter + chapters_per_batch - 1, total_chapters)

\* Keys under which an outline response can hold its list.  A bare JSON list
\* is wrapped by _normalize_segment_data under field_map.get(segment_name,
\* segment_name); field_map (lines 676-680) has no entry for a batch name.
FieldMap(name) ==
    IF name = Name("chapter_outline") THEN "chapters"
    ELSE IF name.batch = 0 THEN name.base
    ELSE "chapter_outline_batch_N"

OutlineShapes == {"chapters", "chapter_outline", "list"}

\* outline_data for a response of the given shape holding `items`.
OutlineData(shape, items, name) ==
    IF shape = "list" THEN [f \in {FieldMap(name)} |-> items]
    ELSE [f \in {shape} |-> items]

\* Line 998.
BatchChapters(outline_data) ==
    Get(outline_data, "chapters", Get(outline_data, "chapter_outline", << >>))

\* The item counts a response to a request for `asked` chapters may hold.
BatchCounts(asked) == {c \in {0, asked - 1, asked} : c >= 0}

\* Mutant: a batch replaces the list.
Extend_Replaces(list, batch_chapters) == batch_chapters

\* all_chapters.extend(batch_chapters) (line 1000)
Extend(list, batch_chapters) == list \o batch_chapters

\* The loop guard (line 943); the cap only stops the model where the loop
\* itself never stops.
LoopRuns ==
    /\ pc = "outline"
    /\ start_chapter <= total_chapters
    /\ batch_num < MaxBatchNum

\* Mutant: the failure branch does not store all_chapters (line 984 missing).
BatchFails_DropsChapters ==
    /\ pc = "outline"
    /\ start_chapter <= total_chapters
    /\ batch_num < MaxBatchNum
    /\ batch_num' = batch_num + 1
    /\ requests' = Append(requests,
                          [seg |-> 5, name |-> BatchName(batch_num + 1),
                           start |-> start_chapter,
                           end |-> Min(start_chapter + chapters_per_batch - 1,
                                       total_chapters),
                           got |-> -1])
    /\ result' = [success |-> FALSE,
                  error |-> [segment_name |-> BatchName(batch_num + 1),
                             segment_index |-> 5],
                  blueprint |-> EmptyDict,
                  partial_blueprint |-> given,
                  generation_context |-> BatchContext(batch_num + 1)]
    /\ pc' = "returned"
    /\ UNCHANGED <<seg, system_prompt, total_chapters, chapters_per_batch,
                   start_from_segment, partial_blueprint, given, blueprint, shared,
                   all_chapters, start_chapter, written, request, resumes,
                   segmentVars, moveVars, parserVars, textVars, limitVars>>

\* Lines 983-995: a batch fails.
BatchFails ==
    /\ LoopRuns
    /\ batch_num' = batch_num + 1
    /\ requests' = Append(requests,
                          Req(5, BatchName(batch_num + 1), start_chapter, EndChapter, -1))
    /\ blueprint' = SetItem(blueprint, "chapter_outline", all_chapters)
    /\ result' = Failure(ParseError(BatchName(batch_num + 1), 5), blueprint',
                         BatchContext(batch_num + 1))
    /\ pc' = "returned"
    /\ UNCHANGED <<seg, system_prompt, total_chapters, chapters_per_batch,
                   start_from_segment, partial_blueprint, given, shared,
                   all_chapters, start_chapter, written, request, resumes,
                   segmentVars, moveVars, parserVars, textVars, limitVars>>

\* Lines 997-1013: a batch succeeds; its chapters are appended to the list
\* object, which blueprint (and the caller's dict) may hold as well.
BatchSucceeds ==
    /\ LoopRuns
    /\ batch_num' = batch_num + 1
    /\ \E shape \in OutlineShapes, c \in BatchCounts(EndChapter - start_chapter + 1) :
        LET outline_data == OutlineData(shape,
                                        BatchItems(start_chapter, c, batch_num + 1),
                                        BatchName(batch_num + 1))
            batch_chapters == BatchChapters(outline_data)
            extended == IF batch_chapters # << >>
                          THEN Extend(all_chapters, batch_chapters)
                          ELSE all_chapters
        IN /\ all_chapters' = extended
           /\ blueprint' = IF "chapter_outline" \in DOMAIN blueprint
                             THEN SetItem(blueprint, "chapter_outline", extended)
                             ELSE blueprint
           /\ partial_blueprint' = IF shared
                                     THEN SetItem(partial_blueprint, "chapter_outline", extended)
                                     ELSE partial_blueprint
           /\ requests' = Append(requests,
                                 Req(5, BatchName(batch_num + 1), start_chapter,
                                     EndChapter, Len(batch_chapters)))
    /\ start_chapter' = EndChapter + 1
    /\ UNCHANGED <<pc, seg, system_prompt, total_chapters, chapters_per_batch,
                   start_from_segment, given, shared, result, written, request, resumes,
                   segmentVars, moveVars, parserVars, textVars, limitVars>>

\* Lines 1015-1024: the loop is over.
FinishOutline ==
    /\ pc = "outline"
    /\ start_chapter > total_chapters
    /\ blueprint' = SetItem(blueprint, "chapter_outline", all_chapters)
    /\ result' = Success(blueprint')
    /\ pc' = "returned"
    /\ UNCHANGED <<seg, system_prompt, total_chapters, chapters_per_batch,
                   start_from_segment, partial_blueprint, given, shared,
                   all_chapters, batch_num, start_chapter, requests, written,
                   request, resumes,
                   segmentVars, moveVars, parserVars, textVars, limitVars>>

\* Line 1024 when `if start_from_segment <= 5` is false.
SkipOutline ==
    /\ pc = "running"
    /\ seg = 5
    /\ ~RunsSegment(5)
    /\ result' = Success(blueprint)
    /\ pc' = "returned"
    /\ UNCHANGED <<seg, system_prompt, total_chapters, chapters_per_batch,
                   start_from_segment, partial_blueprint, given, blueprint, shared,
                   all_chapters, batch_num, start_chapter, requests, written,
                   request, resumes,
                   segmentVars, moveVars, parserVars, textVars, limitVars>>

----------------------------------------------------------------------------
(* fix_and_continue_blueprint *)

\* Mutant: the run starts again at the failed segment itself.
SegmentMap_SameIndex(segment_name) ==
    IF segment_name.base = "chapter_outline_batch_" THEN 5
    ELSE IF segment_name = Name("basic") THEN 1
    ELSE IF segment_name = Name("world_setting") THEN 2
    ELSE IF segment_name = Name("characters") THEN 3
    ELSE IF segment_name = Name("relationships") THEN 4
    ELSE IF segment_name = Name("chapter_outline") THEN 5
    ELSE 1

\* segment_map and the prefix test (lines 394-406).
SegmentMap(segment_name) ==
    IF segment_name.base = "chapter_outline_batch_" THEN 5
    ELSE IF segment_name = Name("basic") THEN 2
    ELSE IF segment_name = Name("world_setting") THEN 3
    ELSE IF segment_name = Name("characters") THEN 4
    ELSE IF segment_name = Name("relationships") THEN 5
    ELSE IF segment_name = Name("chapter_outline") THEN 5
    ELSE 1

\* The prompt the router falls back to when the context holds none
\* (lines 390-391).
EnsurePrompt(prompt) == IF prompt = "" THEN "screenwriting" ELSE prompt

\* The corrected items a caller writes for the failed batch start..end.
FixedItems(first, last, b) ==
    [i \in 1..(last - first + 1) |-> Item(first + i - 1, "fixed", b)]

\* The fixed_data a caller may send for the failure in `res`, whose request
\* was `req`: nothing, the failed segment's field, or the failed batch's
\* chapters under the key of the instruction or under the blueprint's key.
FixedDataChoices(res, req) ==
    IF res.error.segment_index = 5
      THEN {EmptyDict}
           \cup { [f \in {key} |-> FixedItems(req.start, req.end, req.name.batch)] :
                    key \in {"chapters", "chapter_outline"} }
      ELSE {EmptyDict, [f \in {OwnField[res.error.segment_index]} |-> "fixed"]}

\* The client sends back the failure payload with its fixed_data; the
\* router merges and calls the orchestrator (lines 380-439).
FixAndContinue ==
    /\ pc = "returned"
    /\ ~result.success
    /\ resumes < MaxResumes
    /\ resumes' = resumes + 1
    /\ \E fixed_data \in FixedDataChoices(result, requests[Len(requests)]) :
        LET payload == [fixed_data |-> fixed_data,
                        segment_name |-> result.error.segment_name,
                        partial_blueprint |-> result.partial_blueprint,
                        generation_context |-> result.generation_context]
            merged == Update(payload.partial_blueprint, payload.fixed_data)
            context == payload.generation_context
        IN /\ request' = payload
           /\ Call(EnsurePrompt(Get(context, "system_prompt", "")),
                   Get(context, "total_chapters", 20),
                   Get(context, "chapters_per_batch", 50),
                   SegmentMap(payload.segment_name),
                   merged)
    /\ UNCHANGED <<segmentVars, moveVars, parserVars, textVars, limitVars>>

Next ==
    \/ SkipSegment
    \/ SegmentFails
    \/ SegmentSucceeds
    \/ SegmentRaises
    \/ EnterOutline
    \/ BatchFails
    \/ BatchSucceeds
    \/ FinishOutline
    \/ SkipOutline
    \/ FixAndContinue

Spec == Init /\ [][Next]_vars

OrchestratorIdle ==
    /\ pc = "idle"
    /\ seg = 0
    /\ system_prompt = ""
    /\ total_chapters = 0
    /\ chapters_per_batch = 0
    /\ start_from_segment = 0
    /\ partial_blueprint = EmptyDict
    /\ given = EmptyDict
    /\ blueprint = EmptyDict
    /\ shared = FALSE
    /\ all_chapters = << >>
    /\ batch_num = 0
    /\ start_chapter = 0
    /\ result = NoResult
    /\ requests = << >>
    /\ written = {}
    /\ request = NoRequest
    /\ resumes = 0

----------------------------------------------------------------------------
(* _generate_segment_with_retry over _stream_and_collect *)

\* A text is a sequence of opaque pieces; string concatenation is \o.
Texts == {<< >>, <<"x">>, <<"y">>}

\* finish_reason of a stream that ended: "length" is the length-limited
\* one, "stop" stands for every other value (None included).
FinishReasons == {"stop", "length"}

\* What stream_chat can raise: InternalServerError ("server"),
\* RemoteProtocolError / APIConnectionError ("connection"), ReadTimeout /
\* APITimeoutError ("timeout"): lines 262 and 282.  Every other exception of
\* the client (a rate limit, a refused key, a bad request) is caught by
\* neither clause.
CaughtErrors == {"server", "connection", "timeout"}

UncaughtErrors == {"rate limit"}

Message(role, content) == [role |-> role, content |-> content]

\* conversation_history as the orchestrator passes it: one user turn.
ConversationHistory == <<Message("user", <<"segment instruction">>)>>

\* retry_history (lines 552-573)
RetryHistory(n, error_msg) ==
    IF n > 0
      THEN ConversationHistory \o <<Message("user", <<"JSON format error", error_msg>>)>>
      ELSE ConversationHistory

\* get_llm_response (line 178)
LLMMessages(history) == <<Message("system", <<"system_prompt">>)>> \o history

\* response_format of get_llm_response (line 176) and auto_continue (line 216)
ResponseFormat == "json_object"

AutoContinue == TRUE

\* Lines 324-330.
ContinueInstruction(response_format) ==
    IF response_format = "json_object"
      THEN Message("user", <<"continue the JSON where it stopped">>)
      ELSE Message("user", <<"continue">>)

\* Lines 321-330: current_messages of the next round; segment_response is
\* the text of the round just answered alone.
ContinuationMessages(original, segment_response, response_format) ==
    original \o <<Message("assistant", segment_response),
                  ContinueInstruction(response_format)>>

\* Mutant: the counter is not compared with the bound.
NeedsContinuation_Unbounded(finish_reason, count, bound) ==
    finish_reason = "length" /\ AutoContinue /\ count < bound + 1

\* Line 310.
NeedsContinuation(finish_reason, count, bound) ==
    finish_reason = "length" /\ AutoContinue /\ count < bound

\* One streaming exchange: the message list sent, the text collected, how
\* it ended (a finish_reason or an error).
Exchange(sent, text, finish) == [sent |-> sent, text |-> text, finish |-> finish]

\* What _parse_segment_response_with_error returns: (dict, None, None) or
\* (None, error_msg, error_pos).
Parsed(data) == [ok |-> TRUE, data |-> data, msg |-> "", pos |-> NoPosition]

NotParsed(msg, pos) == [ok |-> FALSE, data |-> EmptyDict, msg |-> msg, pos |-> pos]

\* The parser's verdicts on a response: a mapping with fields, the empty
\* mapping ({} itself, or what _normalize_segment_data makes of a scalar),
\* or the JSONDecodeError of the first parse.
ParseOutcomes ==
    {Parsed([title |-> "generated"]), Parsed(EmptyDict),
     NotParsed("Expecting value", 0), NotParsed("Unterminated string", 7)}

\* Mutant: any mapping counts as a result.
Truthy_NotNone(parsed) == parsed.ok

\* `if result:` (line 586): None and the empty dict are falsy.
Truthy(parsed) == parsed.ok /\ DOMAIN parsed.data # {}

\* What an attempt came to.
Attempt(kind, msg, pos) == [kind |-> kind, msg |-> msg, pos |-> pos]

\* SegmentParseError as _generate_segment_with_retry fills it in
\* (lines 612-618).
SegmentParseError(raw_response, error_message, error_position) ==
    [kind |-> "parse failure", raw_response |-> raw_response,
     error_message |-> error_message, error_position |-> error_position]

SegmentInit ==
    \E retries \in 0..MaxRetries, continuations \in 0..MaxContinuations :
        /\ at = "attempt"
        /\ max_retries = retries
        /\ max_continuations = continuations
        /\ attempt = 0
        /\ last_error_msg = ""
        /\ last_error_pos = NoPosition
        /\ last_response = << >>
        /\ messages = << >>
        /\ current_messages = << >>
        /\ full_response = << >>
        /\ continuation_count = 0
        /\ api_request_count = 0
        /\ exchanges = << >>
        /\ exchange_count = 0
        /\ attempts = << >>
        /\ outcome = [kind |-> "none"]
        /\ OrchestratorIdle
        /\ MoveIdle
        /\ ParserIdle
        /\ TextIdle
        /\ LimitIdle

\* Mutant: the loop makes one attempt more.
RetryLoopRuns_OneMore(n, retries) == n <= retries + 1

\* for attempt in range(max_retries + 1) (line 549)
RetryLoopRuns(n, retries) == n < retries + 1

\* Lines 549-581 and 233-235: an attempt begins and _stream_and_collect
\* is entered.
BeginAttempt ==
    /\ at = "attempt"
    /\ RetryLoopRuns(attempt, max_retries)
    /\ messages' = LLMMessages(RetryHistory(attempt, last_error_msg))
    /\ current_messages' = messages'
    /\ full_response' = << >>
    /\ continuation_count' = 0
    /\ exchanges' = << >>
    /\ at' = "exchange"
    /\ UNCHANGED <<max_retries, max_continuations, attempt, last_error_msg,
                   last_error_pos, last_response, api_request_count,
                   exchange_count, attempts, outcome, orchestratorVars, moveVars, parserVars, textVars, limitVars>>

\* Lines 250-261, 298 and 310-331: the exchange ends length-limited and the
\* counter is below the bound.
ExchangeContinues ==
    /\ at = "exchange"
    /\ NeedsContinuation("length", continuation_count, max_continuations)
    /\ \E segment_response \in Texts :
        /\ full_response' = full_response \o segment_response
        /\ current_messages' = ContinuationMessages(messages, segment_response,
                                                    ResponseFormat)
        /\ exchanges' = Append(exchanges,
                               Exchange(current_messages, segment_response, "length"))
    /\ continuation_count' = continuation_count + 1
    /\ exchange_count' = exchange_count + 1
    /\ UNCHANGED <<at, max_retries, max_continuations, attempt, last_error_msg,
                   last_error_pos, last_response, messages, api_request_count,
                   attempts, outcome, orchestratorVars, moveVars, parserVars, textVars, limitVars>>

\* Mutant: the loop ends without the last round's text.
Collected_DropsLast(text, segment_response) == text

\* full_response += segment_response (line 298)
Collected(text, segment_response) == text \o segment_response

\* Mutant: an empty text is returned like any other.
NoContent_Never(text) == FALSE

\* `if not full_response` (line 346)
NoContent(text) == text = << >>

\* Mutant: one request is counted, whatever the number of rounds.
RequestsMade_One(count) == 1

\* Lines 358-362: one increment, and one more for each continuation round.
RequestsMade(count) == 1 + count

\* Lines 298, 332-371 and 582: the exchange ends and the loop is left.  An
\* empty full_response raises HTTPException(500), which line 593 lets
\* through; otherwise the usage counter is advanced once per exchange and
\* the text is the attempt's response.
ExchangeEnds ==
    /\ at = "exchange"
    /\ \E segment_response \in Texts, finish_reason \in FinishReasons :
        /\ ~NeedsContinuation(finish_reason, continuation_count, max_continuations)
        /\ full_response' = Collected(full_response, segment_response)
        /\ exchanges' = Append(exchanges,
                               Exchange(current_messages, segment_response, finish_reason))
        /\ IF NoContent(full_response')
             THEN /\ at' = "raised"
                  /\ outcome' = [kind |-> "HTTPException", status |-> 500]
                  /\ attempts' = Append(attempts,
                                        Attempt("raised", "", NoPosition))
                  /\ UNCHANGED <<api_request_count, last_response>>
             ELSE /\ at' = "parse"
                  /\ api_request_count' = api_request_count + RequestsMade(continuation_count)
                  /\ last_response' = full_response'
                  /\ UNCHANGED <<outcome, attempts>>
    /\ exchange_count' = exchange_count + 1
    /\ UNCHANGED <<max_retries, max_continuations, attempt, last_error_msg,
                   last_error_pos, messages, current_messages, continuation_count,
                   orchestratorVars, moveVars, parserVars, textVars, limitVars>>

\* Mutant: the client's error is swallowed and the text so far is returned.
ExchangeFails_ReturnsText ==
    /\ at = "exchange"
    /\ \E error \in CaughtErrors :
        exchanges' = Append(exchanges, [sent |-> current_messages, text |-> << >>,
                                        finish |-> error])
    /\ exchange_count' = exchange_count + 1
    /\ last_response' = full_response
    /\ at' = "parse"
    /\ UNCHANGED <<max_retries, max_continuations, attempt, last_error_msg,
                   last_error_pos, messages, current_messages, full_response,
                   continuation_count, api_request_count, attempts, outcome,
                   orchestratorVars, moveVars, parserVars, textVars, limitVars>>

\* Lines 262-296 and 593-594: the client raises a server, connection or
\* timeout error; _stream_and_collect raises HTTPException(503), which
\* _generate_segment_with_retry raises again.
ExchangeFails ==
    /\ at = "exchange"
    /\ \E error \in CaughtErrors :
        /\ exchanges' = Append(exchanges, Exchange(current_messages, << >>, error))
        /\ attempts' = Append(attempts,
                              Attempt("raised", error, NoPosition))
    /\ exchange_count' = exchange_count + 1
    /\ outcome' = [kind |-> "HTTPException", status |-> 503]
    /\ at' = "raised"
    /\ UNCHANGED <<max_retries, max_continuations, attempt, last_error_msg,
                   last_error_pos, last_response, messages, current_messages,
                   full_response, continuation_count, api_request_count,
                   orchestratorVars, moveVars, parserVars, textVars, limitVars>>

\* Lines 595-603: any other exception of the exchange leaves
\* _stream_and_collect as it is and is caught by `except Exception`: the
\* attempt is over, last_error_msg = str(exc), and the loop goes on.
ExchangeRaisesOther ==
    /\ at = "exchange"
    /\ \E error \in UncaughtErrors :
        /\ exchanges' = Append(exchanges, Exchange(current_messages, << >>, error))
        /\ attempts' = Append(attempts,
                              Attempt("exception", error, NoPosition))
        /\ last_error_msg' = error
    /\ exchange_count' = exchange_count + 1
    /\ attempt' = attempt + 1
    /\ at' = "attempt"
    /\ UNCHANGED <<max_retries, max_continuations, last_error_pos, last_response,
                   messages, current_messages, full_response, continuation_count,
                   api_request_count, outcome, orchestratorVars, moveVars, parserVars, textVars, limitVars>>

\* Mutant: the parsed fields are noted and the loop goes on.
ParseSucceeds_GoesOn ==
    /\ at = "parse"
    /\ \E parsed \in ParseOutcomes :
        /\ parsed.ok /\ DOMAIN parsed.data # {}
        /\ attempts' = Append(attempts, [kind |-> "parsed", msg |-> "", pos |-> NoPosition])
    /\ attempt' = attempt + 1
    /\ at' = "attempt"
    /\ UNCHANGED <<max_retries, max_continuations, last_error_msg, last_error_pos,
                   last_response, messages, current_messages, full_response,
                   continuation_count, api_request_count, exchanges, exchange_count,
                   outcome, orchestratorVars, moveVars, parserVars, textVars, limitVars>>

\* Lines 585-587: the parser's result is truthy and is returned.
ParseSucceeds ==
    /\ at = "parse"
    /\ \E parsed \in ParseOutcomes :
        /\ Truthy(parsed)
        /\ outcome' = [kind |-> "fields", data |-> parsed.data]
        /\ attempts' = Append(attempts,
                              Attempt("parsed", "", NoPosition))
    /\ at' = "returned"
    /\ UNCHANGED <<max_retries, max_continuations, attempt, last_error_msg,
                   last_error_pos, last_response, messages, current_messages,
                   full_response, continuation_count, api_request_count, exchanges,
                   exchange_count, orchestratorVars, moveVars, parserVars, textVars, limitVars>>

\* Mutant: the error of the first failed attempt is kept.
ErrorMessage_KeepsFirst(parsed) ==
    IF last_error_msg # "" THEN last_error_msg
    ELSE IF parsed.msg # "" THEN parsed.msg ELSE "parse result is empty"

\* error_msg or "..." (line 590)
ErrorMessage(parsed) == IF parsed.msg # "" THEN parsed.msg ELSE "parse result is empty"

\* Lines 586-591: the result is None or empty; the error is remembered and
\* the loop goes on.
ParseFails ==
    /\ at = "parse"
    /\ \E parsed \in ParseOutcomes :
        /\ ~Truthy(parsed)
        /\ last_error_msg' = ErrorMessage(parsed)
        /\ last_error_pos' = parsed.pos
        /\ attempts' = Append(attempts,
                              Attempt(IF parsed.ok THEN "empty" ELSE "unparsed",
                                      parsed.msg, parsed.pos))
    /\ attempt' = attempt + 1
    /\ at' = "attempt"
    /\ UNCHANGED <<max_retries, max_continuations, last_response, messages,
                   current_messages, full_response, continuation_count,
                   api_request_count, exchanges, exchange_count, outcome,
                   orchestratorVars, moveVars, parserVars, textVars, limitVars>>

\* Lines 605-618: the loop is exhausted.
ReturnParseFailure ==
    /\ at = "attempt"
    /\ ~RetryLoopRuns(attempt, max_retries)
    /\ outcome' = SegmentParseError(last_response, last_error_msg, last_error_pos)
    /\ at' = "returned"
    /\ UNCHANGED <<max_retries, max_continuations, attempt, last_error_msg,
                   last_error_pos, last_response, messages, current_messages,
                   full_response, continuation_count, api_request_count, exchanges,
                   exchange_count, attempts, orchestratorVars, moveVars, parserVars, textVars, limitVars>>

SegmentNext ==
    \/ BeginAttempt
    \/ ExchangeContinues
    \/ ExchangeEnds
    \/ ExchangeFails
    \/ ExchangeRaisesOther
    \/ ParseSucceeds
    \/ ParseFails
    \/ ReturnParseFailure

SegmentSpec == SegmentInit /\ [][SegmentNext]_vars

----------------------------------------------------------------------------
(* move_chapter_to_volume *)

\* OFFSET (line 879)
OFFSET == 10000

\* volume_id of a chapter outline that is in no volume (None): the rows
\* replace_blueprint creates (lines 296-303).
NoVolume == 0

\* NovelVolume rows: volumes 1 and 2 belong to the project of the chapter
\* outlines, volume 3 to another project.
Volumes == {1, 2, 3}

OutlineProject == "project"

VolumeProject(v) == IF v \in {1, 2} THEN "project" ELSE "other project"

OutlineIds == 1..MaxChapters

\* Ids a request can name: the rows there are and ids of no row.
RequestedOutlineIds == 1..(MaxChapters + 1)

RequestedVolumeIds == Volumes \cup {4}

\* new_chapter_number is any int of the request body (MoveChapterRequest).
NewNumbers == (0 - 1)..(MaxNumber + 1)

Row(volume_id, chapter_number) ==
    [volume_id |-> volume_id, chapter_number |-> chapter_number]

\* Chapter numbers are unique within a volume.
UniqueNumbers(rows) ==
    \A i, j \in DOMAIN rows :
        (i # j /\ rows[i].volume_id = rows[j].volume_id) =>
            rows[i].chapter_number # rows[j].chapter_number

Less(a, b) ==
    \/ a.volume_id < b.volume_id
    \/ a.volume_id = b.volume_id /\ a.chapter_number < b.chapter_number

\* The stores a call can start from: every chapter is in volume 1, in
\* volume 2 or in none, numbers are unique within a volume but need not be
\* dense (delete_chapter_outline does not renumber).  Row ids only tell rows
\* apart, so the rows are taken in the order of their places.
Stores ==
    {rows \in [OutlineIds -> {Row(v, n) : v \in {NoVolume, 1, 2}, n \in 1..MaxNumber}] :
        \A i, j \in OutlineIds : i < j => Less(rows[i], rows[j])}

\* WHERE volume_id == v: comparing with None is rendered IS NULL.
InVolume(rows, v) == {i \in DOMAIN rows : rows[i].volume_id = v}

\* WHERE volume_id IN (...): NULL is never IN a list.
InVolumes(rows, vs) == {i \in DOMAIN rows : rows[i].volume_id \in vs \ {NoVolume}}

\* select(...).where(volume_id == v).order_by(chapter_number)
\* (lines 891-895, 926-936): the ids in the order of their numbers.
OrderedIds(rows, v) ==
    LET ids == InVolume(rows, v)
        n == Cardinality(ids)
    IN CHOOSE seq \in [1..n -> ids] :
         /\ \A a, b \in 1..n : a # b => seq[a] # seq[b]
         /\ \A a, b \in 1..n :
              a < b => rows[seq[a]].chapter_number <= rows[seq[b]].chapter_number

\* Mutant: the first item is popped, whatever the index.
Pop_First(list, place) == Tail(list)

\* list.pop(index) leaves the list without the item; place is 1-based here.
Pop(list, place) == SubSeq(list, 1, place - 1) \o SubSeq(list, place + 1, Len(list))

\* The 1-based place of id x in list.
IndexOf(list, x) == CHOOSE k \in 1..Len(list) : list[k] = x

\* list.insert(index, x) of Python: a negative index counts from the end,
\* and an index outside the list is clamped to its ends.
Insert(list, index, x) ==
    LET n == Len(list)
        k == IF index < 0 THEN (IF index + n < 0 THEN 0 ELSE index + n)
             ELSE IF index > n THEN n ELSE index
    IN SubSeq(list, 1, k) \o <<x>> \o SubSeq(list, k + 1, n)

\* Mutant: enumerate from 0.
Renumber_FromZero(rows, list, v) ==
    [i \in DOMAIN rows |->
        IF \E k \in 1..Len(list) : list[k] = i
          THEN Row(v, IndexOf(list, i) - 1)
          ELSE rows[i]]

\* for idx, chapter in enumerate(list, start=1): chapter.volume_id = v;
\* chapter.chapter_number = idx (lines 911-912, 950-956).
Renumber(rows, list, v) ==
    [i \in DOMAIN rows |->
        IF \E k \in 1..Len(list) : list[k] = i
          THEN Row(v, IndexOf(list, i))
          ELSE rows[i]]

\* Mutant: a call for the place the chapter is at runs like any other.
IsNoOp_Never(old_volume_id, target_volume_id, old_chapter_number, new_chapter_number) ==
    FALSE

\* Line 871.
IsNoOp(old_volume_id, target_volume_id, old_chapter_number, new_chapter_number) ==
    old_volume_id = target_volume_id /\ old_chapter_number = new_chapter_number

\* Lines 858-865: the rows exist and belong to one project.
Accepted(chapter_outline_id, target_volume_id) ==
    /\ chapter_outline_id \in DOMAIN outlines
    /\ target_volume_id \in Volumes
    /\ OutlineProject = VolumeProject(target_volume_id)

\* The arguments of a call with the locals of lines 867-868.
MoveOf(chapter_outline_id, target_volume_id, new_chapter_number) ==
    [chapter_outline_id |-> chapter_outline_id,
     target_volume_id |-> target_volume_id,
     new_chapter_number |-> new_chapter_number,
     old_volume_id |-> IF chapter_outline_id \in DOMAIN outlines
                         THEN outlines[chapter_outline_id].volume_id ELSE NoVolume,
     old_chapter_number |-> IF chapter_outline_id \in DOMAIN outlines
                              THEN outlines[chapter_outline_id].chapter_number ELSE 0,
     pending |-> << >>]

\* A call that follows a call repeats it; any other call has any arguments.
Repeats(chapter_outline_id, target_volume_id, new_chapter_number) ==
    \/ move = NoMove
    \/ /\ chapter_outline_id = move.chapter_outline_id
       /\ target_volume_id = move.target_volume_id
       /\ new_chapter_number = move.new_chapter_number

\* No call is in progress and another one may be made.
CallReady ==
    /\ mpc \in {"ready", "done", "unchanged", "rejected"}
    /\ moves < MaxMoves

MoveInit ==
    \E rows \in Stores :
        /\ outlines = rows
        /\ details = rows
        /\ committed = [outlines |-> rows, details |-> rows]
        /\ move = NoMove
        /\ mpc = "ready"
        /\ moves = 0
        /\ OrchestratorIdle
        /\ SegmentIdle
        /\ ParserIdle
        /\ TextIdle
        /\ LimitIdle

\* Mutant: the numbers are raised by OFFSET before the rows are looked at.
MoveRejected_AfterOffset ==
    /\ CallReady
    /\ \E id \in RequestedOutlineIds, target \in RequestedVolumeIds, number \in {1} :
        /\ Repeats(id, target, number)
        /\ ~Accepted(id, target)
        /\ move' = MoveOf(id, target, number)
        /\ outlines' =
             [i \in DOMAIN outlines |->
                IF i \in InVolumes(outlines, {target})
                  THEN Row(outlines[i].volume_id, outlines[i].chapter_number + OFFSET)
                  ELSE outlines[i]]
    /\ mpc' = "rejected"
    /\ moves' = moves + 1
    /\ UNCHANGED <<details, committed, orchestratorVars, segmentVars, parserVars, textVars, limitVars>>

\* Lines 861-865: HTTPException 404 or 400, nothing is written (and
\* new_chapter_number is not read).
MoveRejected ==
    /\ CallReady
    /\ \E id \in RequestedOutlineIds, target \in RequestedVolumeIds, number \in {1} :
        /\ Repeats(id, target, number)
        /\ ~Accepted(id, target)
        /\ move' = MoveOf(id, target, number)
    /\ mpc' = "rejected"
    /\ moves' = moves + 1
    /\ UNCHANGED <<outlines, details, committed, orchestratorVars, segmentVars, parserVars, textVars, limitVars>>

\* Lines 870-872: the chapter is at the place asked for; the outline is
\* returned as it is.
MoveNoOp ==
    /\ CallReady
    /\ \E id \in RequestedOutlineIds, target \in RequestedVolumeIds, number \in NewNumbers :
        /\ Repeats(id, target, number)
        /\ Accepted(id, target)
        /\ IsNoOp(outlines[id].volume_id, target, outlines[id].chapter_number, number)
        /\ move' = MoveOf(id, target, number)
    /\ mpc' = "unchanged"
    /\ moves' = moves + 1
    /\ UNCHANGED <<outlines, details, committed, orchestratorVars, segmentVars, parserVars, textVars, limitVars>>

\* Mutant: the numbers are not raised before the renumbering.
MoveOffset_NoOffset ==
    /\ CallReady
    /\ \E id \in RequestedOutlineIds, target \in RequestedVolumeIds, number \in NewNumbers :
        /\ Repeats(id, target, number)
        /\ Accepted(id, target)
        /\ ~IsNoOp(outlines[id].volume_id, target, outlines[id].chapter_number, number)
        /\ move' = MoveOf(id, target, number)
    /\ mpc' = "offset"
    /\ moves' = moves + 1
    /\ UNCHANGED <<outlines, details, committed, orchestratorVars, segmentVars, parserVars, textVars, limitVars>>

\* Mutant: the offset numbers are committed (commit in place of flush).
MoveOffset_Commits ==
    /\ CallReady
    /\ \E id \in RequestedOutlineIds, target \in RequestedVolumeIds, number \in NewNumbers :
        /\ Repeats(id, target, number)
        /\ Accepted(id, target)
        /\ ~IsNoOp(outlines[id].volume_id, target, outlines[id].chapter_number, number)
        /\ move' = MoveOf(id, target, number)
        /\ outlines' =
             [i \in DOMAIN outlines |->
                IF i \in InVolumes(outlines, {outlines[id].volume_id, target})
                  THEN Row(outlines[i].volume_id, outlines[i].chapter_number + OFFSET)
                  ELSE outlines[i]]
    /\ committed' = [outlines |-> outlines', details |-> details]
    /\ mpc' = "offset"
    /\ moves' = moves + 1
    /\ UNCHANGED <<details, orchestratorVars, segmentVars, parserVars, textVars, limitVars>>

\* Lines 884-888 and 919-923: the numbers of the touched volumes are
\* raised by OFFSET and flushed.
MoveOffset ==
    /\ CallReady
    /\ \E id \in RequestedOutlineIds, target \in RequestedVolumeIds, number \in NewNumbers :
        /\ Repeats(id, target, number)
        /\ Accepted(id, target)
        /\ ~IsNoOp(outlines[id].volume_id, target, outlines[id].chapter_number, number)
        /\ move' = MoveOf(id, target, number)
        /\ outlines' =
             [i \in DOMAIN outlines |->
                IF i \in InVolumes(outlines, {outlines[id].volume_id, target})
                  THEN Row(outlines[i].volume_id, outlines[i].chapter_number + OFFSET)
                  ELSE outlines[i]]
    /\ mpc' = "offset"
    /\ moves' = moves + 1
    /\ UNCHANGED <<details, committed, orchestratorVars, segmentVars, parserVars, textVars, limitVars>>

\* Lines 890-912 and 925-956: the ordered lists are loaded, the chapter is
\* popped and inserted at index new_chapter_number - 1, and every row of the
\* lists gets its new number (and the target's volume_id).
Renumbered(rows, m) ==
    LET id == m.chapter_outline_id
        source == OrderedIds(rows, m.old_volume_id)
        rest == Pop(source, IndexOf(source, id))
        insert_index == m.new_chapter_number - 1
    IN IF m.old_volume_id = m.target_volume_id
         THEN Renumber(rows, Insert(rest, insert_index, id), m.target_volume_id)
         ELSE LET target == OrderedIds(rows, m.target_volume_id)
              IN Renumber(Renumber(rows, rest, m.old_volume_id),
                          Insert(target, insert_index, id),
                          m.target_volume_id)

\* The rows whose objects were given another value: the flush of line 914
\* or 958 writes one UPDATE for each of them.
Dirty(rows, objects) == {i \in DOMAIN rows : objects[i] # rows[i]}

\* Lines 890-912 and 925-956: the objects of the session hold the new
\* numbers; no row is written yet.
MoveRenumber ==
    /\ mpc = "offset"
    /\ LET objects == Renumbered(outlines, move)
       IN move' = [move EXCEPT !.pending =
                     [i \in Dirty(outlines, objects) |-> objects[i]]]
    /\ mpc' = "flushing"
    /\ UNCHANGED <<outlines, details, committed, moves, orchestratorVars, segmentVars, parserVars, textVars, limitVars>>

\* Lines 914 and 958: flush writes the changed rows one UPDATE at a time
\* (the order is the unit of work's; any order is allowed here).  With the
\* last one written the flush returns.
MoveFlushRow ==
    /\ mpc = "flushing"
    /\ \E i \in DOMAIN move.pending :
        /\ outlines' = [outlines EXCEPT ![i] = move.pending[i]]
        /\ move' = [move EXCEPT !.pending =
                      [j \in DOMAIN move.pending \ {i} |-> move.pending[j]]]
        /\ mpc' = IF DOMAIN move.pending = {i} THEN "renumbered" ELSE "flushing"
    /\ UNCHANGED <<details, committed, moves, orchestratorVars, segmentVars, parserVars, textVars, limitVars>>

\* Lines 884-971: a statement sent to the database raises.  The function
\* catches nothing, line 973 is not reached, and the writes flushed so far
\* are discarded with the session's transaction.
MoveFails ==
    /\ mpc \in {"offset", "flushing", "renumbered"}
    /\ outlines' = committed.outlines
    /\ details' = committed.details
    /\ mpc' = "failed"
    /\ UNCHANGED <<committed, move, moves, orchestratorVars, segmentVars, parserVars, textVars, limitVars>>

\* Lines 960-975: the Chapter rows at the old (volume, number) are set to
\* the target volume and new_chapter_number; commit.
MoveCommit ==
    /\ mpc = "renumbered"
    /\ details' =
         [i \in DOMAIN details |->
            IF /\ details[i].volume_id = move.old_volume_id
               /\ details[i].chapter_number = move.old_chapter_number
              THEN Row(move.target_volume_id, move.new_chapter_number)
              ELSE details[i]]
    /\ committed' = [outlines |-> outlines, details |-> details']
    /\ mpc' = "done"
    /\ UNCHANGED <<outlines, move, moves, orchestratorVars, segmentVars, parserVars, textVars, limitVars>>

MoveNext ==
    \/ MoveRejected
    \/ MoveNoOp
    \/ MoveOffset
    \/ MoveRenumber
    \/ MoveFlushRow
    \/ MoveFails
    \/ MoveCommit

MoveSpec == MoveInit /\ [][MoveNext]_vars

----------------------------------------------------------------------------
(* create_chapter_outline, delete_chapter_outline *)

\* func.max(chapter_number) of a volume; None when it has no outline.
MaxChapterNumber(rows, volume_id) ==
    LET numbers == {rows[i].chapter_number : i \in InVolume(rows, volume_id)}
    IN IF numbers = {} THEN 0
       ELSE CHOOSE n \in numbers : \A k \in numbers : k <= n

\* The id of a new row: ids only tell rows apart, so a free one is taken.
NewId(rows) == CHOOSE i \in OutlineIds \ DOMAIN rows :
                  \A j \in OutlineIds \ DOMAIN rows : i <= j

\* No call is in progress.
StoreAtRest == mpc \in {"ready", "done", "unchanged", "rejected", "failed"}

\* The store of a project with its volumes and no chapter outline yet.
OutlineInit ==
    /\ outlines = << >>
    /\ details = << >>
    /\ committed = [outlines |-> << >>, details |-> << >>]
    /\ move = NoMove
    /\ mpc = "ready"
    /\ moves = 0
    /\ OrchestratorIdle
    /\ SegmentIdle
    /\ ParserIdle
    /\ TextIdle
    /\ LimitIdle

\* Lines 1044-1051: next_chapter_number = (max_chapter_number or 0) + 1.
NextChapterNumber(rows, volume_id) == MaxChapterNumber(rows, volume_id) + 1

\* Lines 1036-1063: the outline is added at the end of its volume; commit.
CreateChapterOutline ==
    /\ StoreAtRest
    /\ Cardinality(DOMAIN outlines) < MaxChapters
    /\ \E volume_id \in {1, 2} :
        /\ NextChapterNumber(outlines, volume_id) <= MaxNumber
        /\ outlines' =
             [i \in DOMAIN outlines \cup {NewId(outlines)} |->
                IF i \in DOMAIN outlines THEN outlines[i]
                ELSE Row(volume_id, NextChapterNumber(outlines, volume_id))]
    /\ committed' = [outlines |-> outlines', details |-> details]
    /\ move' = NoMove
    /\ mpc' = "ready"
    /\ UNCHANGED <<details, moves, orchestratorVars, segmentVars, parserVars, textVars, limitVars>>

\* Lines 1087-1096: the row is deleted, the rows left keep their numbers;
\* commit.
DeleteChapterOutline ==
    /\ StoreAtRest
    /\ \E outline_id \in DOMAIN outlines :
        outlines' = [i \in DOMAIN outlines \ {outline_id} |-> outlines[i]]
    /\ committed' = [outlines |-> outlines', details |-> details]
    /\ move' = NoMove
    /\ mpc' = "ready"
    /\ UNCHANGED <<details, moves, orchestratorVars, segmentVars, parserVars, textVars, limitVars>>

OutlineNext ==
    \/ CreateChapterOutline
    \/ DeleteChapterOutline
    \/ MoveRejected
    \/ MoveNoOp
    \/ MoveOffset
    \/ MoveRenumber
    \/ MoveFlushRow
    \/ MoveFails
    \/ MoveCommit

OutlineSpec == OutlineInit /\ [][OutlineNext]_vars

----------------------------------------------------------------------------
(* _parse_segment_response_with_error *)

\* What a parse gives: a JSON value, None, or a JSONDecodeError with its
\* msg and pos.
JsonValue(type, dict, list) ==
    [type |-> type, dict |-> dict, list |-> list, msg |-> "", pos |-> NoPosition]

JsonDict(dict) == JsonValue("dict", dict, << >>)

JsonList(list) == JsonValue("list", EmptyDict, list)

JsonNumber == JsonValue("number", EmptyDict, << >>)

None == JsonValue("None", EmptyDict, << >>)

JSONDecodeError(msg, pos) ==
    [type |-> "JSONDecodeError", dict |-> EmptyDict, list |-> << >>,
     msg |-> msg, pos |-> pos]

\* The values a response can hold: a mapping, empty or not, a list of up to
\* MaxListed items, a number.
JsonValues ==
    {JsonDict([title |-> "generated"]), JsonDict(EmptyDict), JsonNumber}
    \cup {JsonList(BatchItems(1, c, 1)) : c \in 0..MaxListed}

\* json.loads(normalized), line 634.
DirectParses ==
    JsonValues \cup {JSONDecodeError("Expecting value", 0),
                     JSONDecodeError("Unterminated string", 7)}

\* safe_parse_json(response), line 649: a value, or None when its two
\* parses fail (json_utils.py lines 180-191).
SafeParses == JsonValues \cup {None}

\* json.loads(self._try_fix_json(normalized)), lines 657-658.
FixParses == JsonValues \cup {JSONDecodeError("Expecting ',' delimiter", 12)}

\* The segment names the orchestrator parses responses for.
ParsedSegments == {Name(SegmentNames[i]) : i \in 1..NumSegments} \cup {BatchName(1)}

\* bool(value) of Python: None, {} and [] are false (the number is not 0).
Bool(v) ==
    \/ v.type = "number"
    \/ v.type = "dict" /\ DOMAIN v.dict # {}
    \/ v.type = "list" /\ Len(v.list) > 0

\* _normalize_segment_data (lines 671-685).
NormalizeSegmentData(data, name) ==
    IF data.type = "dict" THEN data.dict
    ELSE IF data.type = "list" THEN [f \in {FieldMap(name)} |-> data.list]
    ELSE EmptyDict

ParserInit ==
    /\ ppc = "ready"
    /\ parse_segment \in ParsedSegments
    /\ tiers \in [direct : DirectParses, safe : SafeParses, fixed : FixParses]
    /\ first_error_msg = ""
    /\ first_error_pos = NoPosition
    /\ parse_result = NoTuple
    /\ OrchestratorIdle
    /\ SegmentIdle
    /\ MoveIdle
    /\ TextIdle
    /\ LimitIdle

\* Lines 630-647: the strict parse of the extracted text; its error is
\* kept in first_error_msg and first_error_pos.
DirectParse ==
    /\ ppc = "ready"
    /\ IF tiers.direct.type # "JSONDecodeError"
         THEN /\ parse_result' = Parsed(NormalizeSegmentData(tiers.direct, parse_segment))
              /\ ppc' = "returned"
              /\ UNCHANGED <<first_error_msg, first_error_pos>>
         ELSE /\ first_error_msg' = tiers.direct.msg
              /\ first_error_pos' = tiers.direct.pos
              /\ ppc' = "safe"
              /\ UNCHANGED parse_result
    /\ UNCHANGED <<parse_segment, tiers, orchestratorVars, segmentVars, moveVars, textVars, limitVars>>

\* Lines 649-653: safe_parse_json; `if result:`.
SafeParse ==
    /\ ppc = "safe"
    /\ IF Bool(tiers.safe)
         THEN /\ parse_result' = Parsed(NormalizeSegmentData(tiers.safe, parse_segment))
              /\ ppc' = "returned"
         ELSE /\ ppc' = "fix"
              /\ UNCHANGED parse_result
    /\ UNCHANGED <<parse_segment, tiers, first_error_msg, first_error_pos,
                   orchestratorVars, segmentVars, moveVars, textVars, limitVars>>

\* Mutant: the error of the last parse is the one returned.
FixParse_ReportsOwnError ==
    /\ ppc = "fix"
    /\ parse_result' =
         IF tiers.fixed.type # "JSONDecodeError"
           THEN Parsed(NormalizeSegmentData(tiers.fixed, parse_segment))
           ELSE NotParsed(tiers.fixed.msg, tiers.fixed.pos)
    /\ ppc' = "returned"
    /\ UNCHANGED <<parse_segment, tiers, first_error_msg, first_error_pos,
                   orchestratorVars, segmentVars, moveVars, textVars, limitVars>>

\* Lines 655-669: the parse of the repaired text; when it fails too,
\* (None, first_error_msg, first_error_pos) is returned.
FixParse ==
    /\ ppc = "fix"
    /\ parse_result' =
         IF tiers.fixed.type # "JSONDecodeError"
           THEN Parsed(NormalizeSegmentData(tiers.fixed, parse_segment))
           ELSE NotParsed(first_error_msg, first_error_pos)
    /\ ppc' = "returned"
    /\ UNCHANGED <<parse_segment, tiers, first_error_msg, first_error_pos,
                   orchestratorVars, segmentVars, moveVars, textVars, limitVars>>

ParserNext ==
    \/ DirectParse
    \/ SafeParse
    \/ FixParse

ParserSpec == ParserInit /\ [][ParserNext]_vars

----------------------------------------------------------------------------
(* json_utils: texts *)

\* A text is the sequence of its characters.  The characters that matter to
\* json_utils are the brackets, the quote, the backslash, the separators,
\* white space, a letter and a digit.
Quote == "\""
Backslash == "\\"
Newline == "\n"
CarriageReturn == "\r"
Tab == "\t"
Space == " "

\* " \t\r\n" (line 135); str.strip() strips them as well.
Whitespace == {Space, Tab, CarriageReturn, Newline}

Opening == {"{", "["}
Closing == {"}", "]"}

\* A text that was returned.
Text(chars) == [ok |-> TRUE, chars |-> chars]

RECURSIVE LStrip(_)
LStrip(chars) ==
    IF chars # << >> /\ Head(chars) \in Whitespace THEN LStrip(Tail(chars)) ELSE chars

RECURSIVE RStrip(_)
RStrip(chars) ==
    IF chars # << >> /\ chars[Len(chars)] \in Whitespace
      THEN RStrip(SubSeq(chars, 1, Len(chars) - 1))
      ELSE chars

\* str.strip()
Strip(chars) == RStrip(LStrip(chars))

\* The first place of chars that holds one of set, 0 when none does
\* (min of the str.find results that are not -1, lines 96-98).
Find(chars, set) ==
    LET hits == {i \in 1..Len(chars) : chars[i] \in set}
    IN IF hits = {} THEN 0 ELSE CHOOSE i \in hits : \A j \in hits : i <= j

\* The last place of chars that holds one of set, 0 when none does
\* (max of the str.rfind results, lines 99-101).
RFind(chars, set) ==
    LET hits == {i \in 1..Len(chars) : chars[i] \in set}
    IN IF hits = {} THEN 0 ELSE CHOOSE i \in hits : \A j \in hits : j <= i

----------------------------------------------------------------------------
(* json.loads *)

\* A JSON text is read as its tokens: the punctuation marks, the strings
\* with their contents decoded, and the numbers.  Two texts stand for the
\* same value when they are well-formed and have the same tokens.
Token(type, chars) == [type |-> type, chars |-> chars]

\* What no JSON value holds: the scanner stops there.
Bad == Token("bad", << >>)

Punctuation == {"{", "}", "[", "]", ",", ":"}

Digits == {"1"}

\* The characters a backslash may precede, and what the pair stands for.
Escapable == {Quote, Backslash, "n", "r", "t"}

Unescaped(ch) ==
    CASE ch = "n" -> Newline
      [] ch = "r" -> CarriageReturn
      [] ch = "t" -> Tab
      [] OTHER -> ch

\* Control characters: json.loads rejects them inside a string unless
\* strict is False.
ControlCharacters == {Newline, CarriageReturn, Tab}

\* The place after the run of digits that starts at i.
RECURSIVE NumberEnd(_, _)
NumberEnd(chars, i) ==
    IF i <= Len(chars) /\ chars[i] \in Digits THEN NumberEnd(chars, i + 1) ELSE i

RECURSIVE ScanString(_, _, _, _)
RECURSIVE ScanTokens(_, _, _)

\* The string whose opening quote is before i; content holds what was
\* decoded so far.
ScanString(chars, i, content, strict) ==
    IF i > Len(chars) THEN <<Bad>>
    ELSE IF chars[i] = Quote
      THEN <<Token("string", content)>> \o ScanTokens(chars, i + 1, strict)
    ELSE IF chars[i] = Backslash
      THEN IF i + 1 <= Len(chars) /\ chars[i + 1] \in Escapable
             THEN ScanString(chars, i + 2, Append(content, Unescaped(chars[i + 1])), strict)
             ELSE <<Bad>>
    ELSE IF strict /\ chars[i] \in ControlCharacters THEN <<Bad>>
    ELSE ScanString(chars, i + 1, Append(content, chars[i]), strict)

\* The tokens of chars from place i on.
ScanTokens(chars, i, strict) ==
    IF i > Len(chars) THEN << >>
    ELSE IF chars[i] \in Whitespace THEN ScanTokens(chars, i + 1, strict)
    ELSE IF chars[i] \in Punctuation
      THEN <<Token(chars[i], << >>)>> \o ScanTokens(chars, i + 1, strict)
    ELSE IF chars[i] = Quote THEN ScanString(chars, i + 1, << >>, strict)
    ELSE IF chars[i] \in Digits
      THEN <<Token("number", SubSeq(chars, i, NumberEnd(chars, i) - 1))>>
               \o ScanTokens(chars, NumberEnd(chars, i), strict)
    ELSE <<Bad>>

Is(tokens, i, type) == i <= Len(tokens) /\ tokens[i].type = type

RECURSIVE ValueEnd(_, _)
RECURSIVE ElementsEnd(_, _)
RECURSIVE MembersEnd(_, _)

\* The place after the value that starts at token i, 0 when none does.
ValueEnd(tokens, i) ==
    IF Is(tokens, i, "string") \/ Is(tokens, i, "number") THEN i + 1
    ELSE IF Is(tokens, i, "[")
      THEN IF Is(tokens, i + 1, "]") THEN i + 2 ELSE ElementsEnd(tokens, i + 1)
    ELSE IF Is(tokens, i, "{")
      THEN IF Is(tokens, i + 1, "}") THEN i + 2 ELSE MembersEnd(tokens, i + 1)
    ELSE 0

\* value (, value)* ]
ElementsEnd(tokens, i) ==
    LET e == ValueEnd(tokens, i)
    IN IF e = 0 THEN 0
       ELSE IF Is(tokens, e, ",") THEN ElementsEnd(tokens, e + 1)
       ELSE IF Is(tokens, e, "]") THEN e + 1
       ELSE 0

\* string : value (, string : value)* }
MembersEnd(tokens, i) ==
    IF ~(Is(tokens, i, "string") /\ Is(tokens, i + 1, ":")) THEN 0
    ELSE LET e == ValueEnd(tokens, i + 2)
         IN IF e = 0 THEN 0
            ELSE IF Is(tokens, e, ",") THEN MembersEnd(tokens, e + 1)
            ELSE IF Is(tokens, e, "}") THEN e + 1
            ELSE 0

\* The tokens are those of one value.
WellFormed(tokens) == tokens # << >> /\ ValueEnd(tokens, 1) = Len(tokens) + 1

\* json.loads(chars, strict=strict): the value, or JSONDecodeError.
LoadsWith(chars, strict) ==
    LET tokens == ScanTokens(chars, 1, strict)
    IN IF WellFormed(tokens) THEN [ok |-> TRUE, tokens |-> tokens] ELSE NoValue

\* json.loads(chars)
Loads(chars) == LoadsWith(chars, TRUE)

----------------------------------------------------------------------------
(* _extract_balanced_json *)

\* Mutant: no character is taken to be inside a string.
InString_Never(in_string, ch) == FALSE

\* Lines 74-76: an unescaped quote opens or closes a string.
InString(in_string, ch) == IF ch = Quote THEN ~in_string ELSE in_string

\* Lines 63-92: the scan from start_idx; i is the place looked at.  The
\* candidate always starts at start_idx; one that json.loads rejects is
\* passed over and the scan goes on.  NoText when the loop runs out.
RECURSIVE BalancedScan(_, _, _, _, _, _)
BalancedScan(chars, start_idx, i, depth, in_string, escape_next) ==
    LET start_char == chars[start_idx]
        end_char == IF start_char = "{" THEN "}" ELSE "]"
        ch == chars[i]
        candidate == SubSeq(chars, start_idx, i)
    IN IF i > Len(chars) THEN NoText
       ELSE IF escape_next
         THEN BalancedScan(chars, start_idx, i + 1, depth, in_string, FALSE)
       ELSE IF ch = Backslash
         THEN BalancedScan(chars, start_idx, i + 1, depth, in_string, TRUE)
       ELSE IF ch = Quote \/ InString(in_string, ch)
         THEN BalancedScan(chars, start_idx, i + 1, depth, InString(in_string, ch), FALSE)
       ELSE IF ch = start_char
         THEN BalancedScan(chars, start_idx, i + 1, depth + 1, in_string, FALSE)
       ELSE IF ch = end_char
         THEN IF depth - 1 = 0 /\ Loads(candidate).ok
                THEN Text(candidate)
                ELSE BalancedScan(chars, start_idx, i + 1, depth - 1, in_string, FALSE)
       ELSE BalancedScan(chars, start_idx, i + 1, depth, in_string, FALSE)

\* Lines 95-103: from the first opening bracket to the last closing one,
\* stripped and not parsed.
SimpleExtract(chars) ==
    LET start_idx == Find(chars, Opening)
        end_idx == RFind(chars, Closing)
    IN IF start_idx # 0 /\ end_idx # 0 /\ end_idx > start_idx
         THEN Text(Strip(SubSeq(chars, start_idx, end_idx)))
         ELSE NoText

\* _extract_balanced_json(text)
ExtractBalancedJson(chars) ==
    LET start_idx == Find(chars, Opening)
    IN IF start_idx = 0 THEN NoText
       ELSE LET found == BalancedScan(chars, start_idx, start_idx, 0, FALSE, FALSE)
            IN IF found.ok THEN found ELSE SimpleExtract(chars)

----------------------------------------------------------------------------
(* sanitize_json_like_text and safe_parse_json *)

RECURSIVE SkipWhitespace(_, _)
SkipWhitespace(chars, j) ==
    IF j <= Len(chars) /\ chars[j] \in Whitespace THEN SkipWhitespace(chars, j + 1) ELSE j

\* Lines 134-143: the quote at i ends the string when the text ends after
\* it or a closing bracket, a comma or a colon follows it.
ClosesString(chars, i) ==
    LET j == SkipWhitespace(chars, i + 1)
    IN j > Len(chars) \/ chars[j] \in {"}", "]", ",", ":"}

\* Mutant: a tab is left as it is.
Escaped_NotTab(ch) ==
    CASE ch = Newline -> <<Backslash, "n">>
      [] ch = CarriageReturn -> <<Backslash, "r">>
      [] OTHER -> <<ch>>

\* Lines 146-153: what a character inside a string is written as.
Escaped(ch) ==
    CASE ch = Newline -> <<Backslash, "n">>
      [] ch = CarriageReturn -> <<Backslash, "r">>
      [] ch = Tab -> <<Backslash, "t">>
      [] OTHER -> <<ch>>

\* Lines 124-158: the loop from place i on.
RECURSIVE SanitizeFrom(_, _, _, _)
SanitizeFrom(chars, i, in_string, escape_next) ==
    IF i > Len(chars) THEN << >>
    ELSE LET ch == chars[i]
         IN IF ~in_string
              THEN <<ch>> \o SanitizeFrom(chars, i + 1, ch = Quote, FALSE)
            ELSE IF escape_next
              THEN <<ch>> \o SanitizeFrom(chars, i + 1, TRUE, FALSE)
            ELSE IF ch = Backslash
              THEN <<ch>> \o SanitizeFrom(chars, i + 1, TRUE, TRUE)
            ELSE IF ch = Quote
              THEN IF ClosesString(chars, i)
                     THEN <<ch>> \o SanitizeFrom(chars, i + 1, FALSE, FALSE)
                     ELSE <<Backslash, Quote>> \o SanitizeFrom(chars, i + 1, TRUE, FALSE)
            ELSE Escaped(ch) \o SanitizeFrom(chars, i + 1, TRUE, FALSE)

\* sanitize_json_like_text(raw_text)
SanitizeJsonLikeText(chars) == SanitizeFrom(chars, 1, FALSE, FALSE)

\* remove_think_tags(raw_text): the texts here hold no think tags, and the
\* result of re.sub is stripped.
RemoveThinkTags(chars) == Strip(chars)

\* unwrap_markdown_json(raw_text): the texts here hold no code fence.
UnwrapMarkdownJson(chars) ==
    LET trimmed == Strip(chars)
        extracted == ExtractBalancedJson(trimmed)
    IN IF chars = << >> THEN chars
       ELSE IF extracted.ok /\ extracted.chars # << >> THEN extracted.chars
       ELSE trimmed

\* safe_parse_json(raw_text)
SafeParseJson(chars) ==
    LET extracted == UnwrapMarkdownJson(RemoveThinkTags(chars))
    IN IF chars = << >> THEN NoValue
       ELSE IF Loads(extracted).ok THEN Loads(extracted)
       ELSE Loads(SanitizeJsonLikeText(extracted))

\* What a string of a document is made of: a character, or a backslash
\* and the character it escapes.
Atoms ==
    {<<"n">>, <<"{">>, <<"}">>, <<"[">>, <<"]">>, <<",">>,
     <<Backslash, Quote>>, <<Backslash, Backslash>>, <<Backslash, "n">>,
     <<Newline>>, <<CarriageReturn>>, <<Tab>>}

RECURSIVE Bodies(_)
Bodies(n) ==
    IF n = 0 THEN {<< >>}
    ELSE Bodies(n - 1) \cup {b \o a : b \in Bodies(n - 1), a \in Atoms}

String(body) == <<Quote>> \o body \o <<Quote>>

\* The documents: a string, an object, an array, and an object laid out
\* over lines, around one string body.
Documents ==
    UNION {{String(b),
            <<"{">> \o String(<<"n">>) \o <<":">> \o String(b) \o <<"}">>,
            <<"[">> \o String(b) \o <<",", "1", "]">>,
            <<"{", Newline>> \o String(b) \o <<Space, ":", Space, "[">>
                \o String(b) \o <<Newline, ",", "1", "]", "}">>}
           : b \in Bodies(MaxAtoms)}

\* A bracketed span that is not JSON.
CorruptedSpans == {<<"{", "n", "}">>, <<"[", "1", ",", "]">>}

\* What the model's reply holds before and after the document.
Surroundings ==
    {<< << >>, << >> >>,
     << <<Newline>>, <<Newline>> >>,
     << <<"n", Quote, Space>>, <<Space, "}", "]">> >>,
     << <<"n", ":", Space>>, <<Space, "[", "1", "]">> >>}
      \cup {<<c \o <<Space>>, << >> >> : c \in CorruptedSpans}

\* The text handed to the functions.
RawText == json_lead \o json_doc \o json_trail

TextInit ==
    /\ json_doc \in Documents
    /\ \E around \in Surroundings :
          /\ json_lead = around[1]
          /\ json_trail = around[2]
    /\ tpc = "ready"
    /\ balanced = NoText
    /\ sanitized = << >>
    /\ loaded = NoValue
    /\ OrchestratorIdle
    /\ SegmentIdle
    /\ MoveIdle
    /\ ParserIdle
    /\ LimitIdle

\* _extract_balanced_json(text) on the whole text.
ExtractText ==
    /\ tpc = "ready"
    /\ balanced' = ExtractBalancedJson(RawText)
    /\ tpc' = "extracted"
    /\ UNCHANGED <<json_lead, json_doc, json_trail, sanitized, loaded,
                   orchestratorVars, segmentVars, moveVars, parserVars, limitVars>>

\* sanitize_json_like_text(raw_text) on the document.
SanitizeText ==
    /\ tpc = "extracted"
    /\ sanitized' = SanitizeJsonLikeText(json_doc)
    /\ tpc' = "sanitized"
    /\ UNCHANGED <<json_lead, json_doc, json_trail, balanced, loaded,
                   orchestratorVars, segmentVars, moveVars, parserVars, limitVars>>

\* safe_parse_json(raw_text) on the whole text.
SafeParseText ==
    /\ tpc = "sanitized"
    /\ loaded' = SafeParseJson(RawText)
    /\ tpc' = "parsed"
    /\ UNCHANGED <<json_lead, json_doc, json_trail, balanced, sanitized,
                   orchestratorVars, segmentVars, moveVars, parserVars, limitVars>>

TextNext ==
    \/ ExtractText
    \/ SanitizeText
    \/ SafeParseText

TextSpec == TextInit /\ [][TextNext]_vars

----------------------------------------------------------------------------
(* _resolve_llm_config and _enforce_daily_limit *)

\* Concurrent requests of one user.  Every request has an LLMService and a
\* database session of its own; a coroutine gives way at each await.
Callers == 1..MaxCallers

\* user_repo.increment_daily_request adds one to the stored count: as an
\* UPDATE that adds one to the row ("sql"), or by adding one to the value
\* this session loaded ("object").
Counters == {"sql", "object"}

\* The count a commit leaves.
Incremented(how, stored, loaded_count) ==
    IF how = "sql" THEN stored + 1 ELSE loaded_count + 1

LimitInit ==
    /\ lpc = [c \in Callers |-> "start"]
    /\ used = [c \in Callers |-> 0]
    /\ daily_limit \in 0..MaxLimit
    /\ daily_request \in 0..daily_limit
    /\ at_start = daily_request
    /\ custom_key \in BOOLEAN
    /\ counter \in Counters
    /\ OrchestratorIdle
    /\ SegmentIdle
    /\ MoveIdle
    /\ ParserIdle
    /\ TextIdle

\* Lines 374-381: the user's own key is returned; the limit is not looked at.
UseOwnKey(c) ==
    /\ lpc[c] = "start"
    /\ custom_key
    /\ lpc' = [lpc EXCEPT ![c] = "resolved"]
    /\ UNCHANGED <<used, daily_request, daily_limit, custom_key, counter, at_start,
                   orchestratorVars, segmentVars, moveVars, parserVars, textVars>>

\* Lines 384-385 and 499-501: used = await get_daily_request(user_id).
GetDailyRequest(c) ==
    /\ lpc[c] = "start"
    /\ ~custom_key
    /\ used' = [used EXCEPT ![c] = daily_request]
    /\ lpc' = [lpc EXCEPT ![c] = "check"]
    /\ UNCHANGED <<daily_request, daily_limit, custom_key, counter, at_start,
                   orchestratorVars, segmentVars, moveVars, parserVars, textVars>>

\* Lines 502-506: HTTPException(429).
LimitReached(c) ==
    /\ lpc[c] = "check"
    /\ used[c] >= daily_limit
    /\ lpc' = [lpc EXCEPT ![c] = "rejected"]
    /\ UNCHANGED <<used, daily_request, daily_limit, custom_key, counter, at_start,
                   orchestratorVars, segmentVars, moveVars, parserVars, textVars>>

\* Line 507: await increment_daily_request(user_id), in this session.
IncrementDailyRequest(c) ==
    /\ lpc[c] = "check"
    /\ used[c] < daily_limit
    /\ lpc' = [lpc EXCEPT ![c] = "commit"]
    /\ UNCHANGED <<used, daily_request, daily_limit, custom_key, counter, at_start,
                   orchestratorVars, segmentVars, moveVars, parserVars, textVars>>

\* Line 508 and lines 387-398: the commit stores the count, and the call
\* goes on to the system's configuration.
CommitDailyRequest(c) ==
    /\ lpc[c] = "commit"
    /\ daily_request' = Incremented(counter, daily_request, used[c])
    /\ lpc' = [lpc EXCEPT ![c] = "resolved"]
    /\ UNCHANGED <<used, daily_limit, custom_key, counter, at_start,
                   orchestratorVars, segmentVars, moveVars, parserVars, textVars>>

LimitNext ==
    \/ \E c \in Callers : UseOwnKey(c)
    \/ \E c \in Callers : GetDailyRequest(c)
    \/ \E c \in Callers : LimitReached(c)
    \/ \E c \in Callers : IncrementDailyRequest(c)
    \/ \E c \in Callers : CommitDailyRequest(c)

LimitSpec == LimitInit /\ [][LimitNext]_vars

----------------------------------------------------------------------------
(* Claims *)

\* The Document a finished call hands back.
Returned == IF result.success THEN result.blueprint ELSE result.partial_blueprint

LastRequest == requests[Len(requests)]

\* The fields of the segments before index k.
FieldsBefore(k) == {OwnField[i] : i \in 1..(k - 1)}

IsPrefix(a, b) == Len(a) <= Len(b) /\ SubSeq(b, 1, Len(a)) = a

\* C1: a run with start_from_segment = k in 1..5 issues no generation request
\* for a segment below k, and the first request it issues is for segment k.
C1_NoRequestBelowStart ==
    start_from_segment \in 1..5 =>
        /\ \A i \in 1..Len(requests) : requests[i].seg >= start_from_segment
        /\ requests # << >> => requests[1].seg = start_from_segment

C1_Witness ==
    /\ pc = "returned"
    /\ start_from_segment = 3
    /\ Len(requests) >= 3
    /\ requests[1].seg = 3

\* C2 as stated: when the call finishes, every field of the supplied partial
\* Document that belongs to a segment below k has its supplied value in the
\* returned Document, whatever mappings the segments k..5 return.
C2_EarlierFieldsKept ==
    (pc = "returned" /\ start_from_segment \in 1..5) =>
        \A f \in FieldsBefore(start_from_segment) \cap DOMAIN given :
            f \in DOMAIN Returned /\ Returned[f] = given[f]

\* C2 amended: when the call finishes, every field of the supplied partial
\* Document that belongs to a segment below k, and that is not a key of a
\* mapping returned by a segment of this run, has its supplied value in the
\* returned Document.
C2_EarlierFieldsKeptUnlessReturned ==
    (pc = "returned" /\ start_from_segment \in 1..5) =>
        \A f \in (FieldsBefore(start_from_segment) \cap DOMAIN given) \ written :
            f \in DOMAIN Returned /\ Returned[f] = given[f]

C2_Witness ==
    /\ pc = "returned"
    /\ result.success
    /\ start_from_segment = 3
    /\ given = GivenDoc(2, 0)
    /\ Len(requests) >= 3
    /\ written = {"characters", "relationships"}
    /\ Returned["title"] = "given"
    /\ Returned["characters"] = "generated"

\* C3: a failure result has success = false, names the failed segment (its
\* name and index; for an outline batch the batch number) and its
\* partial_blueprint holds every field of the supplied partial Document and
\* every field merged by the segments this run completed.
C3_FailureKeepsCompleted ==
    (pc = "returned" /\ ~result.success) =>
        /\ LastRequest.got = -1
        /\ result.error.segment_index = LastRequest.seg
        /\ result.error.segment_index \in 1..4 =>
             result.error.segment_name = Name(SegmentNames[result.error.segment_index])
        /\ result.error.segment_index = 5 =>
             result.error.segment_name = BatchName(batch_num)
        /\ (DOMAIN given) \cup written \subseteq DOMAIN result.partial_blueprint
        /\ \A f \in written \ ListFields : result.partial_blueprint[f] = "generated"
        /\ \A f \in (DOMAIN given) \ (written \cup ListFields) :
             result.partial_blueprint[f] = given[f]
        /\ ("chapter_outline" \in (DOMAIN given) \ written) =>
             IsPrefix(given["chapter_outline"], result.partial_blueprint["chapter_outline"])

C3_Witness ==
    /\ pc = "returned"
    /\ ~result.success
    /\ start_from_segment = 2
    /\ given = GivenDoc(1, 0)
    /\ result.error.segment_index = 4
    /\ written = {"world_setting", "characters"}
    /\ DOMAIN result.partial_blueprint = {"title", "world_setting", "characters"}

\* C4: once a segment or batch of a run has failed, the run makes no further
\* request and merges nothing more: the failed request is the last one, the
\* call is over, and a failure result holds the Document as it was then.
C4_StopsAtFirstFailure ==
    \A i \in 1..Len(requests) :
        requests[i].got = -1 =>
            /\ i = Len(requests)
            /\ pc \in {"returned", "raised"}
            /\ pc = "returned" => (~result.success /\ result.partial_blueprint = blueprint)

C4_Witness ==
    /\ pc = "returned"
    /\ ~result.success
    /\ start_from_segment = 1
    /\ Len(requests) = 2
    /\ requests[2].got = -1
    /\ total_chapters >= 2

----------------------------------------------------------------------------
(* Claims about the outline batches *)

\* The batch requests of this run, in request order.
IsBatch(e) == e.seg = 5
BatchLog == SelectSeq(requests, IsBatch)

\* The items the batches of a log merged, concatenated in request order.
RECURSIVE MergedItems(_)
MergedItems(log) ==
    IF log = << >> THEN << >>
    ELSE LET e == log[Len(log)] IN
         MergedItems(SubSeq(log, 1, Len(log) - 1))
            \o (IF e.got > 0 THEN BatchItems(e.start, e.got, e.name.batch) ELSE << >>)

\* Every batch that succeeded so far merged exactly the chapters it was asked for.
AllBatchesExact ==
    \A i \in 1..Len(BatchLog) :
        BatchLog[i].got # -1 => BatchLog[i].got = BatchLog[i].end - BatchLog[i].start + 1

Ceil(a, b) == (a + b - 1) \div b

\* A call with start_from_segment = 1 and no partial Document, not a resume.
FreshRun ==
    /\ start_from_segment = 1
    /\ DOMAIN given = {}
    /\ request = NoRequest

\* What the claim says of the batches of a run: batch i asks for chapters
\* (i-1)*B+1 .. min(i*B, T); a successful run made ceil(T/B) requests and its
\* outline is the concatenation of the batch results.
BatchesAsClaimed ==
    /\ \A i \in 1..Len(BatchLog) :
        /\ BatchLog[i].name = BatchName(i)
        /\ BatchLog[i].start = (i - 1) * chapters_per_batch + 1
        /\ BatchLog[i].end = Min(i * chapters_per_batch, total_chapters)
    /\ (pc = "returned" /\ result.success) =>
        /\ Len(BatchLog) = Ceil(total_chapters, chapters_per_batch)
        /\ "chapter_outline" \in DOMAIN Returned
        /\ Returned["chapter_outline"] = MergedItems(BatchLog)
        /\ Len(Returned["chapter_outline"]) = total_chapters

\* C5 as stated: in a fresh run with batch size B >= 1 in which every outline
\* batch returns exactly the requested number of items, the outline segment
\* requests ceil(T/B) batches, batch i asks for (i-1)*B+1 .. min(i*B, T), and
\* the final outline is the concatenation of the batch results in order.
C5_BatchesOfFreshRun ==
    (FreshRun /\ chapters_per_batch >= 1 /\ AllBatchesExact) => BatchesAsClaimed

\* C5 amended: the same, for a fresh run in which no earlier segment's
\* mapping held a chapter_outline key.
C5_BatchesOfFreshRunFromEmptyOutline ==
    (FreshRun /\ chapters_per_batch >= 1 /\ AllBatchesExact
        /\ "chapter_outline" \notin written) => BatchesAsClaimed

C5_Witness ==
    /\ FreshRun
    /\ AllBatchesExact
    /\ "chapter_outline" \notin written
    /\ pc = "returned"
    /\ result.success
    /\ total_chapters = 3
    /\ chapters_per_batch = 2
    /\ Len(BatchLog) = 2
    /\ BatchLog[2].start = 3 /\ BatchLog[2].end = 3
    /\ Len(Returned["chapter_outline"]) = 3

\* The outline list the Document held when the outline block began: the
\* list an earlier segment of this run returned, or else the caller's.
OutlineAtEntry ==
    IF "chapter_outline" \in written THEN ValueOf("chapter_outline")
    ELSE Get(given, "chapter_outline", << >>)

\* C6: every failure result carries a generation_context with the run's
\* system_prompt, total_chapters and chapters_per_batch; for a failure in an
\* outline batch it also carries current_batch, the 1-based number of the
\* failed batch: the batches this run requested, counted on from the whole
\* batches the outline already held.
C6_FailureContext ==
    (pc = "returned" /\ ~result.success) =>
        LET context == result.generation_context IN
        /\ {"system_prompt", "total_chapters", "chapters_per_batch"} \subseteq DOMAIN context
        /\ context["system_prompt"] = system_prompt
        /\ context["total_chapters"] = total_chapters
        /\ context["chapters_per_batch"] = chapters_per_batch
        /\ result.error.segment_index = 5 =>
            /\ "current_batch" \in DOMAIN context
            /\ context["current_batch"] = result.error.segment_name.batch
            /\ context["current_batch"] =
                 Len(BatchLog) + (IF OutlineAtEntry = << >> THEN 0
                                  ELSE Len(OutlineAtEntry) \div chapters_per_batch)
            /\ (FreshRun /\ "chapter_outline" \notin written) =>
                 context["current_batch"] = Len(BatchLog)

C6_Witness ==
    /\ pc = "returned"
    /\ ~result.success
    /\ FreshRun
    /\ total_chapters = 4
    /\ chapters_per_batch = 2
    /\ result.error.segment_index = 5
    /\ result.generation_context["current_batch"] = 2
    /\ Len(result.partial_blueprint["chapter_outline"]) = 2

\* C7 as stated: when an outline batch fails, the partial Document's outline
\* is exactly the outline items of the supplied partial Document followed by
\* the items the earlier batches merged, in order.
C7_PartialOutline ==
    (pc = "returned" /\ ~result.success /\ result.error.segment_index = 5) =>
        /\ "chapter_outline" \in DOMAIN result.partial_blueprint
        /\ result.partial_blueprint["chapter_outline"] =
             Get(given, "chapter_outline", << >>) \o MergedItems(BatchLog)

\* C7 amended: when an outline batch fails, the partial Document's outline
\* is exactly the outline the Document held when the outline segment began
\* (the supplied partial Document's, or the list an earlier segment of the
\* run returned under chapter_outline) followed by the items the earlier
\* batches merged, in order.
C7_PartialOutlineFromEntry ==
    (pc = "returned" /\ ~result.success /\ result.error.segment_index = 5) =>
        /\ "chapter_outline" \in DOMAIN result.partial_blueprint
        /\ result.partial_blueprint["chapter_outline"] =
             OutlineAtEntry \o MergedItems(BatchLog)

C7_Witness ==
    /\ pc = "returned"
    /\ ~result.success
    /\ result.error.segment_name = BatchName(3)
    /\ given = GivenDoc(5, 1)
    /\ chapters_per_batch = 1
    /\ Len(BatchLog) = 2
    /\ BatchLog[1].got = 1
    /\ result.partial_blueprint["chapter_outline"] =
         <<Item(1, "given", 0), Item(2, "gen", 2)>>

----------------------------------------------------------------------------
(* Claims about resuming *)

\* The outline of a run that is never interrupted and whose batches all
\* return the chapters asked for.
UninterruptedOutline ==
    [i \in 1..total_chapters |-> Item(i, "gen", (i - 1) \div chapters_per_batch + 1)]

\* This run was started by fix_and_continue_blueprint from the failure of
\* outline batch j of an otherwise uninterrupted run: the payload's partial
\* Document holds the chapters of batches 1..j-1.
ResumedFromBatch(j) ==
    /\ request # NoRequest
    /\ request.segment_name = BatchName(j)
    /\ chapters_per_batch >= 1
    /\ (j - 1) * chapters_per_batch <= total_chapters
    /\ "chapter_outline" \in DOMAIN request.partial_blueprint
    /\ request.partial_blueprint["chapter_outline"] =
         SubSeq(UninterruptedOutline, 1, (j - 1) * chapters_per_batch)

\* C8: a run resumed, with no corrected fields, from the failure of outline
\* batch j asks only for chapters after the accumulated ones, starting with
\* batch j at the first missing chapter; when its batches return the sizes
\* asked for, the final outline is that of an uninterrupted run, chapters
\* 1..T once each and in order.
C8_ResumeCompletesOutline ==
    \A j \in 1..MaxBatchNum :
        (ResumedFromBatch(j) /\ DOMAIN request.fixed_data = {}) =>
            /\ start_from_segment = 5
            /\ \A i \in 1..Len(BatchLog) :
                /\ BatchLog[i].start > (j - 1) * chapters_per_batch
                /\ BatchLog[i].name = BatchName(j + i - 1)
            /\ BatchLog # << >> =>
                 BatchLog[1].start = (j - 1) * chapters_per_batch + 1
            /\ (pc = "returned" /\ result.success /\ AllBatchesExact) =>
                 /\ Returned["chapter_outline"] = UninterruptedOutline
                 /\ \A n \in 1..total_chapters :
                      Cardinality({i \in 1..Len(Returned["chapter_outline"]) :
                                     Returned["chapter_outline"][i].n = n}) = 1

C8_Witness ==
    /\ ResumedFromBatch(2)
    /\ DOMAIN request.fixed_data = {}
    /\ total_chapters = 4
    /\ chapters_per_batch = 2
    /\ pc = "returned"
    /\ result.success
    /\ AllBatchesExact
    /\ Len(BatchLog) = 1
    /\ Len(Returned["chapter_outline"]) = 4

\* index of the segment a failure payload names
FailedIndex(segment_name) ==
    IF segment_name.base = "chapter_outline_batch_" THEN 5
    ELSE CHOOSE i \in 1..5 : SegmentNames[i] = segment_name.base

\* C9 as stated: the resume entry point calls the Orchestrator with
\* start_from_segment equal to the index of the failed segment the payload
\* names (5 for an outline batch).
C9_ResumesAtFailedSegment ==
    request # NoRequest => start_from_segment = FailedIndex(request.segment_name)

\* C9 amended: the resume entry point calls the Orchestrator with
\* start_from_segment equal to the failed segment's index plus one for the
\* segments 1..4 (the failed segment is not generated again: its fields are
\* the caller's fixed_data), and equal to 5 for an outline batch.
C9_ResumesAfterFailedSegment ==
    request # NoRequest =>
        start_from_segment = Min(FailedIndex(request.segment_name) + 1, 5)

C9_Witness ==
    /\ request # NoRequest
    /\ request.segment_name = Name("characters")
    /\ start_from_segment = 4
    /\ Len(requests) >= 1
    /\ requests[1].seg = 4

\* C10: a run resumed from the failure of outline batch j with the corrected
\* chapters of that batch as fixed_data loses nothing: in the final outline
\* the chapters of batches 1..j-1 are still there, the corrected chapters are
\* there, and every chapter 1..T appears exactly once.
C10_ResumeWithFixedChapters ==
    \A j \in 1..MaxBatchNum :
        (/\ ResumedFromBatch(j)
         /\ DOMAIN request.fixed_data # {}
         /\ pc = "returned"
         /\ result.success
         /\ AllBatchesExact) =>
            LET outline == Returned["chapter_outline"]
                kept == request.partial_blueprint["chapter_outline"]
                key == CHOOSE f \in DOMAIN request.fixed_data : TRUE
                fixed == request.fixed_data[key]
            IN /\ \A i \in 1..Len(kept) : \E m \in 1..Len(outline) : outline[m] = kept[i]
               /\ \A i \in 1..Len(fixed) : \E m \in 1..Len(outline) : outline[m] = fixed[i]
               /\ \A n \in 1..total_chapters :
                    Cardinality({i \in 1..Len(outline) : outline[i].n = n}) = 1

----------------------------------------------------------------------------
(* Claims about continuation and retry *)

\* The texts of a log of exchanges, concatenated in order.
RECURSIVE ConcatTexts(_)
ConcatTexts(log) ==
    IF log = << >> THEN << >>
    ELSE ConcatTexts(SubSeq(log, 1, Len(log) - 1)) \o log[Len(log)].text

LastExchange == exchanges[Len(exchanges)]

\* The length-limited answers among the exchanges of this attempt.
LengthLimited == {i \in 1..Len(exchanges) : exchanges[i].finish = "length"}

\* The continuation loop of this attempt was left after an answer (not by
\* an error of the exchange).
LoopLeft ==
    /\ at # "exchange"
    /\ exchanges # << >>
    /\ LastExchange.finish \in FinishReasons

\* The call of _stream_and_collect of this attempt returned its text.
StreamReturned == LoopLeft /\ at # "raised"

\* C11 as stated: with the first n answers length-limited and the next one
\* normal, _stream_and_collect makes min(n, max_continuations) continuation
\* rounds and returns the texts of the first min(n, max_continuations) + 1
\* answers, concatenated in order, nothing removed.
C11_ReturnsConcatenation ==
    LoopLeft =>
        /\ continuation_count = Min(Cardinality(LengthLimited), max_continuations)
        /\ Len(exchanges) = continuation_count + 1
        /\ StreamReturned
        /\ last_response = ConcatTexts(exchanges)

\* C11 amended: the rounds are as stated; the concatenation is returned when
\* it is not empty, and when it is empty _stream_and_collect raises
\* HTTPException(500) and returns nothing.
C11_ReturnsNonEmptyConcatenation ==
    LoopLeft =>
        /\ continuation_count = Min(Cardinality(LengthLimited), max_continuations)
        /\ Len(exchanges) = continuation_count + 1
        /\ IF ConcatTexts(exchanges) # << >>
             THEN StreamReturned /\ last_response = ConcatTexts(exchanges)
             ELSE at = "raised" /\ outcome = [kind |-> "HTTPException", status |-> 500]

C11_Witness ==
    /\ at = "parse"
    /\ max_continuations = 2
    /\ Len(exchanges) = 3
    /\ Cardinality(LengthLimited) = 3
    /\ continuation_count = 2
    /\ last_response = <<"x", "x", "y">>

\* C12: in every continuation round r >= 1 the exchange sent is the
\* original message list, then one assistant turn holding the text produced
\* in rounds 0..r-1, then one continue instruction.
C12_ContinuationExchange ==
    \A r \in 2..Len(exchanges) :
        exchanges[r].sent =
            messages \o <<Message("assistant", ConcatTexts(SubSeq(exchanges, 1, r - 1))),
                          ContinueInstruction(ResponseFormat)>>

\* C13 as stated: when an answer is length-limited and the counter has
\* reached max_continuations, _stream_and_collect makes no further exchange,
\* does not raise, and returns all the text accumulated.
C13_SoftFailureReturns ==
    (LoopLeft /\ LastExchange.finish = "length") =>
        /\ continuation_count = max_continuations
        /\ Len(exchanges) = max_continuations + 1
        /\ StreamReturned
        /\ last_response = ConcatTexts(exchanges)

\* C13 amended: it makes no further exchange and returns all the text
\* accumulated when there is any; when every round came back empty it
\* raises HTTPException(500).
C13_SoftFailureReturnsNonEmpty ==
    (LoopLeft /\ LastExchange.finish = "length") =>
        /\ continuation_count = max_continuations
        /\ Len(exchanges) = max_continuations + 1
        /\ IF ConcatTexts(exchanges) # << >>
             THEN StreamReturned /\ last_response = ConcatTexts(exchanges)
             ELSE at = "raised" /\ outcome = [kind |-> "HTTPException", status |-> 500]

C13_Witness ==
    /\ at = "parse"
    /\ max_continuations = 1
    /\ Len(exchanges) = 2
    /\ LastExchange.finish = "length"
    /\ last_response = <<"x", "y">>

\* C14: an attempt that ends in an error of the exchange, whatever the
\* error, is the last attempt: the error leaves the call (it is raised) and
\* no ParseFailure is returned for it.
C14_HardFailureNotRetried ==
    \A i \in 1..Len(attempts) :
        attempts[i].kind \in {"raised", "exception"} =>
            /\ i = Len(attempts)
            /\ at = "raised"
            /\ outcome.kind # "parse failure"

\* C15: a server, connection or timeout error of an exchange, in the first
\* round or in a continuation round, ends the call at once: it is the last
\* exchange, HTTPException(503) is raised, and nothing of the text of the
\* earlier rounds is returned or parsed.
C15_HardFailureAborts ==
    \A i \in 1..Len(exchanges) :
        exchanges[i].finish \in CaughtErrors =>
            /\ i = Len(exchanges)
            /\ at = "raised"
            /\ outcome = [kind |-> "HTTPException", status |-> 503]
            /\ attempts[Len(attempts)].kind = "raised"
            /\ Len(attempts) = attempt + 1

C15_Witness ==
    /\ at = "raised"
    /\ Len(exchanges) = 3
    /\ LastExchange.finish = "timeout"
    /\ full_response = <<"x", "y">>
    /\ outcome = [kind |-> "HTTPException", status |-> 503]

\* C16 as stated: an attempt on which the parser returns a mapping, the
\* empty one included, is the last attempt, and its mapping is returned.
C16_ParserSuccessReturns ==
    \A i \in 1..Len(attempts) :
        attempts[i].kind \in {"parsed", "empty"} =>
            /\ i = Len(attempts)
            /\ at = "returned"
            /\ outcome.kind = "fields"

\* C16 amended: an attempt on which the parser returns a mapping that is
\* not empty is the last attempt, and that mapping is returned; the empty
\* mapping counts as a failed parse with the message "parse result is empty".
C16_NonEmptyMappingReturns ==
    \A i \in 1..Len(attempts) :
        /\ attempts[i].kind = "parsed" =>
            /\ i = Len(attempts)
            /\ at = "returned"
            /\ outcome.kind = "fields"
            /\ DOMAIN outcome.data # {}
        /\ (attempts[i].kind = "empty" /\ i = Len(attempts) /\ at \in {"attempt", "returned"}) =>
            /\ last_error_msg = "parse result is empty"
            /\ outcome.kind # "fields"

C16_Witness ==
    /\ at = "returned"
    /\ max_retries = 1
    /\ Len(attempts) = 2
    /\ attempts[1].kind = "empty"
    /\ attempts[2].kind = "parsed"
    /\ outcome.kind = "fields"

\* C17: a segment makes at most max_retries + 1 attempts, an attempt at most
\* max_continuations + 1 exchanges, and so a segment at most
\* (max_retries + 1) * (max_continuations + 1) exchanges.
C17_Bounded ==
    /\ Len(attempts) <= max_retries + 1
    /\ attempt <= max_retries + 1
    /\ at \in {"exchange", "parse"} => attempt <= max_retries
    /\ Len(exchanges) <= max_continuations + 1
    /\ exchange_count <= (max_retries + 1) * (max_continuations + 1)

C17_Witness ==
    /\ at = "returned"
    /\ max_retries = 1
    /\ max_continuations = 2
    /\ Len(attempts) = 2
    /\ exchange_count = 6

\* Every attempt of the call got a response that the parser rejected.
EveryAttemptUnparsed ==
    /\ outcome.kind = "parse failure"
    /\ attempts # << >>
    /\ \A i \in 1..Len(attempts) : attempts[i].kind = "unparsed"

\* C18 as stated: when every attempt fails to parse, the ParseFailure holds
\* the raw response of the last attempt and the error message and offset of
\* the first attempt.
C18_LastResponseFirstError ==
    EveryAttemptUnparsed =>
        /\ outcome.raw_response = ConcatTexts(exchanges)
        /\ outcome.error_message = attempts[1].msg
        /\ outcome.error_position = attempts[1].pos

\* C18 amended: when every attempt fails to parse, the ParseFailure holds
\* the raw response, the error message and the error offset of the last
\* attempt.
C18_LastResponseLastError ==
    EveryAttemptUnparsed =>
        /\ outcome.raw_response = ConcatTexts(exchanges)
        /\ outcome.error_message = attempts[Len(attempts)].msg
        /\ outcome.error_position = attempts[Len(attempts)].pos

C18_Witness ==
    /\ EveryAttemptUnparsed
    /\ Len(attempts) = 2
    /\ attempts[1].msg = "Expecting value"
    /\ attempts[2].msg = "Unterminated string"
    /\ outcome.error_position = 7
    /\ outcome.raw_response = <<"x", "y">>

\* The message an attempt leaves in last_error_msg.
AttemptMessage(a) == IF a.kind = "empty" THEN "parse result is empty" ELSE a.msg

\* C36: the error message and the error offset of every ParseFailure are
\* those of one and the same attempt, and when that attempt is the last one
\* and got a response, the raw response is that response.
C36_FieldsOfOneAttempt ==
    outcome.kind = "parse failure" =>
        \E k \in 1..Len(attempts) :
            /\ outcome.error_message = AttemptMessage(attempts[k])
            /\ outcome.error_position = attempts[k].pos
            /\ (k = Len(attempts) /\ attempts[k].kind \in {"empty", "unparsed"}) =>
                  outcome.raw_response = ConcatTexts(exchanges)

\* C37: when the continuation loop is left, either the collected text is
\* empty and HTTPException(500) is raised, or the text returned is the
\* collected text and is not empty.
C37_NeverReturnsEmpty ==
    LoopLeft =>
        IF ConcatTexts(exchanges) = << >>
          THEN at = "raised" /\ outcome = [kind |-> "HTTPException", status |-> 500]
          ELSE /\ at # "raised"
               /\ last_response = ConcatTexts(exchanges)
               /\ last_response # << >>

\* The only round ended normally with no text.
C37_Witness ==
    /\ at = "raised"
    /\ Len(exchanges) = 1
    /\ exchanges[1].finish = "stop"
    /\ exchanges[1].text = << >>
    /\ outcome = [kind |-> "HTTPException", status |-> 500]

\* C38: the step in which _stream_and_collect returns its text advances
\* api_request_count by the number of streaming exchanges the call made;
\* every other step of the call, the raising ones included, leaves the
\* counter as it is.
C38_CountedOncePerExchange ==
    [][at = "exchange" =>
          api_request_count' =
              api_request_count + (IF at' = "parse" THEN Len(exchanges') ELSE 0)]_vars

\* Two continuation rounds, three exchanges, three increments.
C38_Witness ==
    /\ at = "parse"
    /\ attempt = 0
    /\ continuation_count = 2
    /\ Len(exchanges) = 3
    /\ api_request_count = 3

----------------------------------------------------------------------------
(* Claims about moving chapters *)

\* The chapter numbers of volume v are exactly 1..N for its N outlines.
Dense(rows, v) ==
    {rows[i].chapter_number : i \in InVolume(rows, v)} = 1..Cardinality(InVolume(rows, v))

\* The volumes a call touches.
Touched == {move.old_volume_id, move.target_volume_id} \ {NoVolume}

\* Every call starts from a committed store with unique numbers.
StartsUnique ==
    mpc \in {"ready", "done", "unchanged", "rejected"} =>
        /\ committed = [outlines |-> outlines, details |-> details]
        /\ UniqueNumbers(outlines)

C20_NoOpChangesNothing ==
    (/\ mpc \in {"offset", "flushing", "renumbered", "failed", "done", "unchanged"}
     /\ move.target_volume_id = move.old_volume_id
     /\ move.new_chapter_number = move.old_chapter_number) =>
        /\ mpc = "unchanged"
        /\ outlines = committed.outlines
        /\ details = committed.details

C20_Witness ==
    /\ mpc = "unchanged"
    /\ moves = 1
    /\ move.target_volume_id = 1
    /\ move.new_chapter_number = 3
    /\ ~Dense(outlines, 1)
    /\ outlines = committed.outlines

\* C21: after a call that succeeds, whatever target number it was given,
\* the moved chapter is in the target volume and its chapter number is the
\* target number.
C21_MovedToTargetNumber ==
    mpc = "done" =>
        outlines[move.chapter_outline_id] =
            Row(move.target_volume_id, move.new_chapter_number)

\* C22: a first call starts with every Chapter row mirroring its outline;
\* after it the Chapter row of every chapter of the touched volumes, moved
\* or shifted, mirrors its outline again, and no two Chapter rows of a
\* volume share a number.
C22_DetailsMirrorOutlines ==
    (mpc = "done" /\ moves = 1) =>
        /\ \A i \in DOMAIN outlines :
              outlines[i].volume_id \in Touched => details[i] = outlines[i]
        /\ UniqueNumbers(details)

\* C23: a call that names a chapter or a volume there is not, or a volume
\* of another project, is rejected, and the step that rejects it leaves the
\* outline rows, the Chapter rows and the committed store as they were.
C23_RejectedBeforeAnyChange ==
    [][(moves' = moves + 1 /\ ~Accepted(move'.chapter_outline_id, move'.target_volume_id)) =>
          /\ mpc' = "rejected"
          /\ UNCHANGED <<outlines, details, committed>>]_vars

\* A chapter there is was asked into the volume of another project.
C23_Witness ==
    /\ mpc = "rejected"
    /\ move.chapter_outline_id \in DOMAIN outlines
    /\ move.target_volume_id = 3
    /\ outlines = committed.outlines
    /\ details = committed.details

\* C24: the committed store never holds a chapter number raised by OFFSET,
\* and it changes only in the step that ends a call with success, to a
\* store in which every row of the touched volumes has its final number; a
\* call that fails after the offset or between two row writes leaves the
\* committed store as it was before the call.
C24_AllOrNothing ==
    /\ [](\A i \in DOMAIN committed.outlines :
            committed.outlines[i].chapter_number < OFFSET)
    /\ [][committed' # committed =>
            /\ mpc' = "done"
            /\ DOMAIN move'.pending = {}
            /\ committed' = [outlines |-> outlines', details |-> details']
            /\ \A v \in Touched : Dense(committed'.outlines, v)]_vars

\* A move from volume 1 to volume 2 failed when all but one of its rows
\* were written.
C24_Witness ==
    /\ mpc = "failed"
    /\ move.old_volume_id = 1
    /\ move.target_volume_id = 2
    /\ Cardinality(DOMAIN move.pending) = 1
    /\ Cardinality(InVolume(committed.outlines, 1)) = 2
    /\ outlines = committed.outlines
    /\ \A i \in DOMAIN committed.outlines : committed.outlines[i].chapter_number < OFFSET

\* C25: whenever no call is in progress, after any sequence of
\* create_chapter_outline, delete_chapter_outline and move_chapter_to_volume
\* from the empty store, the chapter numbers of every volume are unique and
\* are exactly 1..N.
C25_EveryVolumeDense ==
    StoreAtRest =>
        /\ UniqueNumbers(outlines)
        /\ \A v \in {1, 2} : Dense(outlines, v)

\* C26: a call that repeats the accepted call before it ends with the
\* outline rows and the Chapter rows as that call committed them, and
\* after every accepted call the chapter numbers of every volume are
\* exactly 1..N.
C26_SameMoveTwice ==
    /\ [][(moves = 2 /\ mpc # mpc' /\ mpc' \in {"done", "unchanged"}) =>
            /\ outlines' = committed.outlines
            /\ details' = committed.details]_vars
    /\ [](mpc \in {"done", "unchanged"} =>
            /\ UniqueNumbers(outlines)
            /\ \A v \in {1, 2} : Dense(outlines, v))

\* No two rows of volume v hold the same number.
UniqueIn(rows, v) ==
    \A i, j \in InVolume(rows, v) :
        i # j => rows[i].chapter_number # rows[j].chapter_number

\* C29: while a call is under way, after the offset update and after each
\* single row the flush writes, no two outline rows of a volume hold the
\* same number, for every volume whose numbers were unique and below OFFSET
\* when the call began.
C29_NoSharedNumberMidMove ==
    mpc \in {"offset", "flushing", "renumbered"} =>
        \A v \in Volumes :
            (/\ UniqueIn(committed.outlines, v)
             /\ \A i \in InVolume(committed.outlines, v) :
                   committed.outlines[i].chapter_number < OFFSET) =>
                UniqueIn(outlines, v)

\* A move within volume 1 with three chapters: two rows are written, one
\* still holds its raised number.
C29_Witness ==
    /\ mpc = "flushing"
    /\ move.old_volume_id = 1
    /\ move.target_volume_id = 1
    /\ Cardinality(InVolume(outlines, 1)) = 3
    /\ Cardinality(DOMAIN move.pending) = 1
    /\ \E i \in InVolume(outlines, 1) : outlines[i].chapter_number > OFFSET
    /\ \E i \in InVolume(outlines, 1) : outlines[i].chapter_number < OFFSET
    /\ UniqueIn(outlines, 1)

----------------------------------------------------------------------------
(* Claims about parsing a segment response *)

\* Every parse of the response failed.
AllTiersFail ==
    /\ tiers.direct.type = "JSONDecodeError"
    /\ ~Bool(tiers.safe)
    /\ tiers.fixed.type = "JSONDecodeError"

\* C27: when every parse of the response fails, the tuple returned holds
\* the message and the offset of the error of the first, strict parse.
C27_FirstTierErrorReported ==
    (ppc = "returned" /\ AllTiersFail) =>
        /\ ~parse_result.ok
        /\ parse_result.msg = tiers.direct.msg
        /\ parse_result.pos = tiers.direct.pos

C27_Witness ==
    /\ ppc = "returned"
    /\ tiers.direct = JSONDecodeError("Unterminated string", 7)
    /\ tiers.safe = None
    /\ tiers.fixed = JSONDecodeError("Expecting ',' delimiter", 12)
    /\ parse_result = NotParsed("Unterminated string", 7)

\* C28: when the response to an outline batch parses to a bare list, the
\* mapping returned holds the list where line 998 of the orchestrator reads
\* the chapters of a batch, so that the items appended are the items of
\* the list.
C28_BareListAppended ==
    (ppc = "returned" /\ parse_segment = BatchName(1) /\ tiers.direct.type = "list") =>
        /\ parse_result.ok
        /\ BatchChapters(parse_result.data) = tiers.direct.list

\* C30: a run that went through the outline segment and returns success
\* returns an outline of at least total_chapters items, whatever the number
\* of items each batch response held.
C30_SuccessReachesTotal ==
    (pc = "returned" /\ result.success /\ start_from_segment <= 5) =>
        /\ "chapter_outline" \in DOMAIN Returned
        /\ Len(Returned["chapter_outline"]) >= total_chapters

----------------------------------------------------------------------------
(* Claims about the batch loop and the caller's Document *)

\* C31: in every run, whatever total_chapters and chapters_per_batch are,
\* the number of outline batches requested is at most the number of
\* chapters missing when the outline segment began.
C31_BatchesBoundedByRemaining ==
    pc \in {"outline", "returned"} =>
        \/ Len(BatchLog) = 0
        \/ Len(BatchLog) <= total_chapters - Len(OutlineAtEntry)

\* C35: when the call finishes, with success or with a failure, the
\* caller's partial Document, its outline list included, holds what it
\* held when the call began.
C35_CallerDocumentUnchanged ==
    pc = "returned" => partial_blueprint = given

\* The rows of rows other than id that were in volume v before the call.
OthersIn(rows, v, id) == InVolume(rows, v) \ {id}

\* C39: the commit of a move leaves the store with the rows it had before
\* the call; only the moved row has another volume; in every volume the
\* rows other than the moved one are in the order they were in; and the
\* rows of a volume that is neither the source nor the target are as they
\* were.
C39_MoveKeepsTheOthers ==
    [][(mpc = "renumbered" /\ mpc' = "done") =>
          LET pre == committed.outlines
              post == outlines'
              id == move.chapter_outline_id
          IN /\ DOMAIN post = DOMAIN pre
             /\ post[id].volume_id = move.target_volume_id
             /\ \A i \in DOMAIN pre \ {id} : post[i].volume_id = pre[i].volume_id
             /\ \A v \in {NoVolume} \cup Volumes :
                  \A i, j \in OthersIn(pre, v, id) :
                      pre[i].chapter_number < pre[j].chapter_number =>
                          post[i].chapter_number < post[j].chapter_number
             /\ \A i \in DOMAIN pre :
                  pre[i].volume_id \notin {move.old_volume_id, move.target_volume_id} =>
                      post[i] = pre[i]]_vars

\* The second of the three chapters of volume 1 went to volume 2, and the
\* two that stayed are numbered 1 and 2 in the order they were in.
C39_Witness ==
    /\ mpc = "done"
    /\ moves = 1
    /\ move.old_volume_id = 1
    /\ move.old_chapter_number = 2
    /\ move.target_volume_id = 2
    /\ outlines[move.chapter_outline_id].volume_id = 2
    /\ \E i, j \in OthersIn(outlines, 1, move.chapter_outline_id) :
          /\ outlines[i] = Row(1, 1)
          /\ outlines[j] = Row(1, 2)
          /\ i < j

----------------------------------------------------------------------------
(* Claims about extracting and sanitizing JSON text *)

\* _extract_balanced_json was applied to the text.
Extracted == tpc \in {"extracted", "sanitized", "parsed"}

\* The document is an object or an array and json.loads accepts it.
BracketedValue == json_doc[1] \in Opening /\ Loads(json_doc).ok

\* C32: when the first opening bracket of the text starts a well-formed
\* value, whatever brackets and escaped quotes its strings hold and
\* whatever follows it, _extract_balanced_json returns exactly the text of
\* that value.
C32_BalancedSpanReturned ==
    (Extracted /\ Find(json_lead, Opening) = 0 /\ BracketedValue) =>
        balanced = Text(json_doc)

\* An object whose string holds a closing brace and an escaped quote,
\* between a stray quote and stray closing brackets.
C32_Witness ==
    /\ Extracted
    /\ json_lead = <<"n", Quote, Space>>
    /\ json_doc = <<"{", Quote, "n", Quote, ":", Quote, "}", Backslash, Quote, Quote, "}">>
    /\ json_trail = <<Space, "}", "]">>
    /\ balanced = Text(json_doc)

\* C33: when the text is a bracketed span that does not parse followed by
\* a well-formed bracketed value, _extract_balanced_json returns the
\* well-formed value alone.
C33_LaterValueReturned ==
    (Extracted /\ json_lead \in {c \o <<Space>> : c \in CorruptedSpans} /\ BracketedValue) =>
        balanced = Text(json_doc)

\* The characters of chars inside string literals (inside = TRUE), or the
\* others with the quotes that delimit the literals (inside = FALSE).
RECURSIVE Part(_, _, _, _, _)
Part(chars, i, in_string, escape_next, inside) ==
    IF i > Len(chars) THEN << >>
    ELSE LET ch == chars[i]
             opens == ~in_string /\ ch = Quote
             closes == in_string /\ ~escape_next /\ ch = Quote
         IN (IF (in_string /\ ~closes) = inside THEN <<ch>> ELSE << >>)
              \o Part(chars, i + 1,
                      (in_string \/ opens) /\ ~closes,
                      in_string /\ ~escape_next /\ ch = Backslash,
                      inside)

InsideStrings(chars) == Part(chars, 1, FALSE, FALSE, TRUE)

OutsideStrings(chars) == Part(chars, 1, FALSE, FALSE, FALSE)

\* C34: for a document that is well-formed but for literal newlines,
\* carriage returns and tabs in its strings, the text
\* sanitize_json_like_text returns has none of them inside a string, is
\* the document outside the strings, and parses strictly to the value the
\* document stands for; safe_parse_json returns that value for a document
\* that is an object or an array.
C34_SanitizedKeepsContents ==
    tpc \in {"sanitized", "parsed"} =>
        /\ LoadsWith(json_doc, FALSE).ok
        /\ \A k \in 1..Len(InsideStrings(sanitized)) :
              InsideStrings(sanitized)[k] \notin ControlCharacters
        /\ OutsideStrings(sanitized) = OutsideStrings(json_doc)
        /\ Loads(sanitized) = LoadsWith(json_doc, FALSE)
        /\ (/\ tpc = "parsed"
            /\ json_doc[1] \in Opening
            /\ Strip(json_lead) = << >>
            /\ Strip(json_trail) = << >>) => loaded = LoadsWith(json_doc, FALSE)

\* An array whose string is a newline and a tab.
C34_Witness ==
    /\ tpc = "parsed"
    /\ json_lead = << >>
    /\ json_doc = <<"[", Quote, Newline, Tab, Quote, ",", "1", "]">>
    /\ sanitized = <<"[", Quote, Backslash, "n", Backslash, "t", Quote, ",", "1", "]">>
    /\ ~Loads(json_doc).ok
    /\ loaded.ok
    /\ loaded.tokens[2] = Token("string", <<Newline, Tab>>)

----------------------------------------------------------------------------
(* Claims about the daily limit *)

\* The calls _enforce_daily_limit let through.
Admitted == {c \in Callers : lpc[c] = "resolved"}

\* C40: for a user without a key of their own, however the concurrent calls
\* interleave, the stored daily request count is never above the limit and
\* the calls let through, with those counted before, are never more than
\* the limit.
C40_NeverAboveLimit ==
    (lpc # << >> /\ ~custom_key) =>
        /\ daily_request <= daily_limit
        /\ at_start + Cardinality(Admitted) <= daily_limit

====
